---- MODULE Spec2Model ----
(***************************************************************************)
(* Model of pycqed/measurement/waveform_control/sequence.py: the Sequence  *)
(* container (add, repeat), the static algorithms Sequence.merge and       *)
(* Sequence.compress_2D_sweep, and Sequence.generate_waveforms_sequences.  *)
(* Also modelled: the pulse shapes MW_IQmod_pulse and SSB_DRAG_pulse of    *)
(* modules/measurement/waveform_control/pulse_library.py, and the          *)
(* construction, on, off and the status parameter of HeterodyneInstrument  *)
(* and LO_modulated_Heterodyne (heterodyne.py).                            *)
(*                                                                         *)
(* Objects live in two heaps, so that aliasing and deepcopy are visible:   *)
(*   seqHeap : reference of a Sequence -> its attributes                   *)
(*   segHeap : reference of a Segment  -> its attributes                   *)
(* A reference <<"in", i>> is the i-th Sequence the caller built, and      *)
(* <<"in", i, j>> the j-th Segment added to it; <<"cp", ...>> are the      *)
(* objects deepcopy creates inside merge.                                  *)
(*                                                                         *)
(* Strings that the code builds by concatenation are modelled by what is   *)
(* concatenated: a segment name is [base, suffix], standing for            *)
(* base + "_copy_from_merge_" + n for every n of suffix in turn, and a     *)
(* sequence name is the tuple of the caller's names joined by "+".         *)
(* An optional integer argument is <<>> (None, np.inf after defaulting)    *)
(* or <<n>>.  A dict is a function; an OrderedDict is a sequence of        *)
(* [key, seg] items in insertion order.                                    *)
(***************************************************************************)
EXTENDS Integers, Sequences, FiniteSets, TLC

\* Bounds of the model.
MaxInputSize == 6
MaxLimit == 2
MaxAcq == 1
MaxSweepLen == 6
MaxSweepSegs == 2
MaxSweepLimit == 4
MaxGenSize == 4
MaxRepeatSize == 3
MaxTick == 5
MaxAxisLen == 2
MaxStackDepth == 20

VARIABLES
    seqHeap,                \* Sequence objects: name, segments, repeat_patterns
    segHeap,                \* Segment objects: name, acquisition_elements
    inputs,                 \* the caller's list of Sequence references
    pc,                     \* "build" | "loop" | "compress_ret" | "compile" | "done"
    raised,                 \* exception raised by the last call, "" if none
    retval,                 \* list returned by merge
    pre,                    \* the heaps as they were when merge was called
    limit_arg,              \* merge's segment_limit argument as passed
    segment_limit,          \* merge's local segment_limit
    merge_repeat_patterns,  \* merge's flag
    sequences,              \* merge's local list (the deep copies)
    merged_seqs,            \* merge's local
    seg_occurences,         \* merge's local
    segment_counter,        \* merge's local
    idx,                    \* position of merge's loop in sequences
    sweep,                  \* compress_2D_sweep's locals and results
    gen,                    \* generate_waveforms_sequences' locals and results
    pulseObj,               \* a pulse object and the last chan_wf call on it
    het                     \* a heterodyne instrument and its call stack

vars == <<seqHeap, segHeap, inputs, pc, raised, retval, pre, limit_arg,
          segment_limit, merge_repeat_patterns, sequences, merged_seqs,
          seg_occurences, segment_counter, idx, sweep, gen, pulseObj, het>>

sequenceVars == <<seqHeap, segHeap, inputs, pc, raised, retval, pre, limit_arg,
                  segment_limit, merge_repeat_patterns, sequences,
                  merged_seqs, seg_occurences, segment_counter, idx, sweep,
                  gen>>

mergeLocals == <<limit_arg, segment_limit, merge_repeat_patterns, sequences,
                 merged_seqs, seg_occurences, segment_counter, idx>>

----------------------------------------------------------------------------
\* Data the caller draws from.

PlainName(b) == [base |-> b, suffix |-> <<>>]

\* new_name = seg_name + f"_copy_from_merge_{k}"
CopyName(seg_name, k) == [seg_name EXCEPT !.suffix = Append(@, k)]

SegNames == {PlainName("seg0"), PlainName("seg1"),
             CopyName(PlainName("seg0"), 1)}

\* acq acquisition elements of a segment
AcqElements(acq) == {PlainName("ro") } \X (1..acq)

Pulses == {[I_channel |-> "ch1", Q_channel |-> "ch2"]}

pulse_channel_names == <<"I_channel", "Q_channel">>

Patterns == {<<1, 1>>, <<1, 2>>}

Limits == {<<>>} \cup {<<n>> : n \in 1..MaxLimit}

EmptyDict == <<>>

NoGen ==
    [awgs_arg |-> <<>>, awgs |-> {}, todo |-> {}, awg |-> "", seg |-> 0,
     waveforms |-> EmptyDict, sequences |-> EmptyDict,
     n_evaluations |-> EmptyDict, hashed |-> {}, n_references |-> 0,
     calls |-> <<>>]

Last(s) == s[Len(s)]

Range(s) == {s[n] : n \in DOMAIN s}

RECURSIVE SumSeq(_)
SumSeq(s) == IF s = <<>> THEN 0 ELSE s[1] + SumSeq(Tail(s))

----------------------------------------------------------------------------
\* Sequence: construction and the container operations.

NewSequenceObject(name) ==
    [name |-> name, segments |-> <<>>, repeat_patterns |-> EmptyDict]

Keys(segments) == {segments[n].key : n \in DOMAIN segments}

n_segments(seqH, s) == Len(seqH[s].segments)

\* [len(seg.acquisition_elements) for seg in self.segments.values()]
n_acq_elements_per_segment(seqH, segH, s) ==
    [n \in DOMAIN seqH[s].segments |->
        Cardinality(segH[seqH[s].segments[n].seg].acquisition_elements)]

n_acq_elements(seqH, segH, s) ==
    SumSeq(n_acq_elements_per_segment(seqH, segH, s))

AddNeverRaises(seqH, segH, s, g) == FALSE

\* Sequence.add raises NameError when segment.name is already a key.
AddRaises(seqH, segH, s, g) == segH[g].name \in Keys(seqH[s].segments)

AddStoreFirst(seqH, segH, s, g) ==
    [seqH EXCEPT ![s].segments = <<[key |-> segH[g].name, seg |-> g]>> \o @]

\* self.segments[segment.name] = segment
AddStore(seqH, segH, s, g) ==
    [seqH EXCEPT ![s].segments = Append(@, [key |-> segH[g].name, seg |-> g])]

\* What the caller has built so far: sequences, segments, acquisition
\* elements and sequences carrying repeat patterns.
InputSize ==
    Len(inputs)
    + SumSeq([i \in DOMAIN inputs |->
                n_segments(seqHeap, inputs[i])
                + n_acq_elements(seqHeap, segHeap, inputs[i])
                + (IF seqHeap[inputs[i]].repeat_patterns = EmptyDict
                   THEN 0 ELSE 1)])

NewSequence ==
    /\ pc = "build"
    /\ InputSize + 1 <= MaxInputSize
    /\ LET s == <<"in", Len(inputs) + 1>>
       IN /\ seqHeap' = seqHeap @@ (s :> NewSequenceObject(<<Len(inputs) + 1>>))
          /\ inputs' = Append(inputs, s)
    /\ raised' = ""
    /\ UNCHANGED <<segHeap, pc, retval, pre, mergeLocals, sweep, gen>>
    /\ UNCHANGED <<pulseObj, het>>

Add(i, name, acq) ==
    /\ pc = "build"
    /\ i \in DOMAIN inputs
    /\ InputSize + 1 + acq <= MaxInputSize
    /\ LET s == inputs[i]
           g == <<"in", i, n_segments(seqHeap, s) + 1>>
           segH == segHeap @@ (g :> [name |-> name,
                                     acquisition_elements |-> AcqElements(acq)])
       IN IF AddRaises(seqHeap, segH, s, g)
          THEN /\ raised' = "NameError"
               /\ UNCHANGED <<seqHeap, segHeap>>
          ELSE /\ raised' = ""
               /\ segHeap' = segH
               /\ seqHeap' = AddStore(seqHeap, segH, s, g)
    /\ UNCHANGED <<inputs, pc, retval, pre, mergeLocals, sweep, gen>>
    /\ UNCHANGED <<pulseObj, het>>

\* Values of the pulse_channel_names argument of repeat.
ChannelNameArgs == {pulse_channel_names, <<"I_channel">>}

RepeatDictAllChannels(pulse, pattern, names) ==
    [ch \in {pulse[k] : k \in DOMAIN pulse} |-> pattern]

\* for ch in pulse_channel_names: repeat[pulse[ch]] = pattern
RepeatDictOn(pulse, pattern, names) ==
    [ch \in {pulse[names[n]] : n \in DOMAIN names} |-> pattern]

RepeatDict(pulse, pattern) == RepeatDictOn(pulse, pattern, pulse_channel_names)

\* dict.update
Update(d, e) == e @@ d

Repeat(i, pulse, pattern) ==
    /\ pc = "build"
    /\ i \in DOMAIN inputs
    /\ InputSize + (IF seqHeap[inputs[i]].repeat_patterns = EmptyDict
                    THEN 1 ELSE 0) <= MaxInputSize
    /\ seqHeap' = [seqHeap EXCEPT ![inputs[i]].repeat_patterns =
                      Update(@, RepeatDict(pulse, pattern))]
    /\ raised' = ""
    /\ UNCHANGED <<segHeap, inputs, pc, retval, pre, mergeLocals, sweep, gen>>
    /\ UNCHANGED <<pulseObj, het>>

\* repeat with an explicit pulse_channel_names argument.
RepeatOn(i, pulse, pattern, names) ==
    /\ pc = "build"
    /\ i \in DOMAIN inputs
    /\ seqHeap' = [seqHeap EXCEPT ![inputs[i]].repeat_patterns =
                      Update(@, RepeatDictOn(pulse, pattern, names))]
    /\ raised' = ""
    /\ UNCHANGED <<segHeap, inputs, pc, retval, pre, mergeLocals, sweep, gen>>
    /\ UNCHANGED <<pulseObj, het>>

\* (self.n_acq_elements(), 1)
RoPattern(seqH, segH, s) == <<n_acq_elements(seqH, segH, s), 1>>

RepeatRo(i, pulse) ==
    /\ i \in DOMAIN inputs
    /\ RepeatOn(i, pulse, RoPattern(seqHeap, segHeap, inputs[i]),
                pulse_channel_names)

----------------------------------------------------------------------------
\* Sequence.__deepcopy__: every attribute but pulsar is deep-copied, so the
\* copy owns new Segment objects with the same attribute values.

ShareSeqRef(s) == s

\* deepcopy(s): a new Sequence object
CopySeqRef(s) == <<"cp", s[2]>>

ShareSegRef(g) == g

CopySegRef(g) == <<"cp", g[2], g[3]>>

DeepCopySequence(seqH, s) ==
    LET segs == seqH[s].segments
    IN [seqH[s] EXCEPT !.segments =
           [n \in DOMAIN segs |->
               [key |-> segs[n].key, seg |-> CopySegRef(segs[n].seg)]]]

SegRefsOf(seqH, s) == {seqH[s].segments[n].seg : n \in DOMAIN seqH[s].segments}

DeepCopyAll(seqH, segH, refs) ==
    LET segRefs == UNION {SegRefsOf(seqH, refs[n]) : n \in DOMAIN refs}
    IN [seqH |-> seqH @@ [c \in {CopySeqRef(refs[n]) : n \in DOMAIN refs} |->
                            DeepCopySequence(seqH, <<"in", c[2]>>)],
        segH |-> segH @@ [c \in {CopySegRef(g) : g \in segRefs} |->
                            segH[<<"in", c[2], c[3]>>]]]

----------------------------------------------------------------------------
\* Sequence.merge

\* n > segment_limit, with np.inf for a limit that was not given
Exceeds(n, limit) == limit # <<>> /\ n > limit[1]

StartsNewSequenceOffByOne(nacc, nseq, limit) ==
    limit # <<>> /\ nacc + nseq >= limit[1]

\* merged_seqs[-1].n_segments() + seq.n_segments() > segment_limit
StartsNewSequence(nacc, nseq, limit) == Exceeds(nacc + nseq, limit)

\* {s: 1 for s in seq.segments}
InitialOccurences(seqH, s) == [k \in Keys(seqH[s].segments) |-> 1]

NewNameNoDecrement(seg_name, occ) == CopyName(seg_name, occ[seg_name])

\* seg_name + f"_copy_from_merge_{seg_occurences[-1][seg_name] - 1}"
NewName(seg_name, occ) == CopyName(seg_name, occ[seg_name] - 1)

\* for seg_name, segment in seq.segments.items(): try add, rename on NameError.
\* st = [seqH, segH, occ, err]; occ is seg_occurences[-1]; an exception ends
\* the loop with what was changed before it.
RECURSIVE FoldSegments(_, _, _, _)
FoldSegments(st, acc, items, n) ==
    IF n > Len(items) \/ st.err # "" THEN st
    ELSE
    LET seg_name == items[n].key
        segment == items[n].seg
    IN IF ~AddRaises(st.seqH, st.segH, acc, segment)
       THEN FoldSegments([st EXCEPT !.seqH = AddStore(st.seqH, st.segH, acc, segment)],
                         acc, items, n + 1)
       ELSE IF seg_name \notin DOMAIN st.occ
       THEN [st EXCEPT !.err = "KeyError"]
       ELSE LET occ2 == [st.occ EXCEPT ![seg_name] = @ + 1]
                st2 == [st EXCEPT !.occ = occ2,
                                  !.segH[segment].name = NewName(seg_name, occ2)]
            IN IF AddRaises(st2.seqH, st2.segH, acc, segment)
               THEN [st2 EXCEPT !.err = "NameError"]
               ELSE FoldSegments(
                        [st2 EXCEPT !.seqH = AddStore(st2.seqH, st2.segH, acc, segment)],
                        acc, items, n + 1)

ChannelOrder == <<"ch1", "ch2">>

\* dict.items(): repeat() inserts the I channel before the Q channel
Items(d) ==
    LET chs == SelectSeq(ChannelOrder, LAMBDA c : c \in DOMAIN d)
    IN [n \in DOMAIN chs |-> <<chs[n], d[chs[n]]>>]

\* pattern_prev[1] != pattern[1]
PatternMismatch(pattern_prev, pattern) == pattern_prev[2] # pattern[2]

UpdatedPatternNoSum(pattern_prev, pattern) == pattern

UpdatedPatternKeepsCount(pattern_prev, pattern) == pattern_prev

\* (pattern_prev[0] + pattern[0], pattern_prev[1])
UpdatedPattern(pattern_prev, pattern) ==
    <<pattern_prev[1] + pattern[1], pattern_prev[2]>>

\* for ch_name, pattern in seq.repeat_patterns.items(): ...
RECURSIVE MergePatterns(_, _, _)
MergePatterns(prev, items, n) ==
    IF n > Len(items) THEN [rp |-> prev, err |-> ""]
    ELSE
    LET ch_name == items[n][1]
        pattern == items[n][2]
    IN IF ch_name \in DOMAIN prev
       THEN IF PatternMismatch(prev[ch_name], pattern)
            THEN [rp |-> prev, err |-> "NotImplementedError"]
            ELSE MergePatterns(
                     [prev EXCEPT ![ch_name] = UpdatedPattern(@, pattern)],
                     items, n + 1)
       ELSE MergePatterns(Update(prev, ch_name :> pattern), items, n + 1)

EmptyListIndexError == "IndexError"

\* raise ValueError("merge requires at least one sequence")
EmptyListError == "ValueError"

NeverSingleInput(refs) == FALSE

\* elif len(sequences) == 1: return sequences
IsSingleInput(refs) == Len(refs) = 1

\* The body of merge up to its loop, for the list the caller passed.
MergeEnter(limit, flag, retpc) ==
    /\ limit_arg' = limit
    /\ segment_limit' = limit
    /\ merge_repeat_patterns' = flag
    /\ IF Len(inputs) = 0
       THEN /\ raised' = EmptyListError
            /\ pc' = "done"
            /\ retval' = <<>>
            /\ UNCHANGED <<seqHeap, segHeap, sequences, merged_seqs,
                           seg_occurences, segment_counter, idx>>
       ELSE IF IsSingleInput(inputs)
       THEN /\ raised' = ""
            /\ pc' = retpc
            /\ retval' = inputs
            /\ UNCHANGED <<seqHeap, segHeap, sequences, merged_seqs,
                           seg_occurences, segment_counter, idx>>
       ELSE LET h == DeepCopyAll(seqHeap, segHeap, inputs)
                copies == [n \in DOMAIN inputs |-> CopySeqRef(inputs[n])]
            IN /\ seqHeap' = h.seqH
               /\ segHeap' = h.segH
               /\ sequences' = copies
               /\ merged_seqs' = <<copies[1]>>
               /\ segment_counter' = n_segments(h.seqH, copies[1])
               /\ seg_occurences' = <<InitialOccurences(h.seqH, copies[1])>>
               /\ idx' = 2
               /\ raised' = ""
               /\ pc' = "loop"
               /\ UNCHANGED retval

MergeCall(limit, flag) ==
    /\ pc = "build"
    /\ pre' = [seqH |-> seqHeap, segH |-> segHeap]
    /\ MergeEnter(limit, flag, "done")
    /\ UNCHANGED <<inputs, sweep, gen>>
    /\ UNCHANGED <<pulseObj, het>>

\* One pass of "for seq in sequences[1:]".
MergeIter ==
    /\ pc = "loop"
    /\ idx <= Len(sequences)
    /\ LET seq == sequences[idx]
           acc == Last(merged_seqs)
       IN IF Exceeds(n_segments(seqHeap, seq), segment_limit)
          THEN /\ raised' = "AssertionError"
               /\ pc' = "done"
               /\ UNCHANGED <<seqHeap, segHeap, merged_seqs, seg_occurences,
                              segment_counter, idx>>
          ELSE IF StartsNewSequence(n_segments(seqHeap, acc),
                                    n_segments(seqHeap, seq), segment_limit)
          THEN /\ merged_seqs' = Append(merged_seqs, seq)
               /\ seg_occurences' =
                      Append(seg_occurences, InitialOccurences(seqHeap, seq))
               /\ segment_counter' = n_segments(seqHeap, seq)
               /\ idx' = idx + 1
               /\ UNCHANGED <<seqHeap, segHeap, pc, raised>>
          ELSE
          LET st == FoldSegments([seqH |-> seqHeap, segH |-> segHeap,
                                  occ |-> Last(seg_occurences), err |-> ""],
                                 acc, seqHeap[seq].segments, 1)
              named == [st.seqH EXCEPT ![acc].name = @ \o st.seqH[seq].name]
              rp == IF merge_repeat_patterns
                    THEN MergePatterns(named[acc].repeat_patterns,
                                       Items(named[seq].repeat_patterns), 1)
                    ELSE [rp |-> named[acc].repeat_patterns, err |-> ""]
          IN /\ segHeap' = st.segH
             /\ seg_occurences' =
                    [seg_occurences EXCEPT ![Len(seg_occurences)] = st.occ]
             /\ UNCHANGED merged_seqs
             /\ IF st.err # ""
                THEN /\ seqHeap' = st.seqH
                     /\ raised' = st.err
                     /\ pc' = "done"
                     /\ UNCHANGED <<segment_counter, idx>>
                ELSE /\ seqHeap' = [named EXCEPT ![acc].repeat_patterns = rp.rp]
                     /\ segment_counter' =
                            segment_counter + n_segments(st.seqH, seq)
                     /\ raised' = rp.err
                     /\ IF rp.err # ""
                        THEN pc' = "done" /\ UNCHANGED idx
                        ELSE idx' = idx + 1 /\ UNCHANGED pc
    /\ UNCHANGED <<inputs, retval, pre, limit_arg, segment_limit,
                   merge_repeat_patterns, sequences, sweep, gen>>
    /\ UNCHANGED <<pulseObj, het>>

\* return merged_seqs
MergeReturn ==
    /\ pc = "loop"
    /\ idx > Len(sequences)
    /\ retval' = merged_seqs
    /\ pc' = IF sweep.active THEN "compress_ret" ELSE "done"
    /\ UNCHANGED <<seqHeap, segHeap, inputs, raised, pre, mergeLocals, sweep, gen>>
    /\ UNCHANGED <<pulseObj, het>>

----------------------------------------------------------------------------
\* Sequence.compress_2D_sweep

NoSweep ==
    [active |-> FALSE, segment_limit |-> <<>>, n_soft_sp |-> 0, n_seg |-> 0,
     compression_fact |-> <<>>, factor |-> 0, warned |-> FALSE,
     seg_lim_eff |-> 0, hard_sp_ind |-> <<>>, soft_sp_ind |-> <<>>]

\* pycqed.utilities.math.factors: the divisors of n
factors(n) == {d \in 1..n : n % d = 0}

\* np.sort(...)[::-1]
RECURSIVE SortedDescending(_)
SortedDescending(S) ==
    IF S = {} THEN <<>>
    ELSE LET m == CHOOSE x \in S : \A y \in S : y <= x
         IN <<m>> \o SortedDescending(S \ {m})

AnyNumberOfSegments(seqH, refs) == Len(refs) >= 1

arangeFromOne(n) == [k \in 1..n |-> k]

\* np.arange(n)
arange(n) == [k \in 1..n |-> k - 1]

\* for factor in compression_fact: ... ; r.factor is the loop variable when
\* the loop is left.  The warning's text reads compression_fact[-2].
RECURSIVE FactorSearch(_, _, _, _)
FactorSearch(compression_fact, n_seg, limit, n) ==
    LET factor == compression_fact[n]
    IN IF Exceeds(factor * n_seg, limit)
       THEN IF n = Len(compression_fact)
            THEN [factor |-> factor, warned |-> FALSE, err |-> ""]
            ELSE FactorSearch(compression_fact, n_seg, limit, n + 1)
       ELSE IF factor = 1
       THEN IF Len(compression_fact) < 2
            THEN [factor |-> factor, warned |-> FALSE, err |-> "IndexError"]
            ELSE [factor |-> factor, warned |-> TRUE, err |-> ""]
       ELSE [factor |-> factor, warned |-> FALSE, err |-> ""]

\* len(np.unique([s.n_segments() for s in sequences])) == 1
SameNumberOfSegments(seqH, refs) ==
    Cardinality({n_segments(seqH, refs[i]) : i \in DOMAIN refs}) = 1

EffectiveLimitOfOne(factor, n_seg) == n_seg

\* seg_lim_eff = factor * n_seg
EffectiveLimit(factor, n_seg) == factor * n_seg

CompressCall(limit, flag) ==
    /\ pc = "build"
    /\ pre' = [seqH |-> seqHeap, segH |-> segHeap]
    /\ UNCHANGED <<inputs, gen>>
    /\ IF ~SameNumberOfSegments(seqHeap, inputs)
       THEN /\ raised' = "AssertionError"
            /\ pc' = "done"
            /\ sweep' = [NoSweep EXCEPT !.active = TRUE, !.segment_limit = limit]
            /\ UNCHANGED <<seqHeap, segHeap, retval, mergeLocals>>
       ELSE
       LET n_soft_sp == Len(inputs)
           n_seg == n_segments(seqHeap, inputs[1])
           compression_fact == SortedDescending(factors(n_soft_sp))
           r == FactorSearch(compression_fact, n_seg, limit, 1)
           found == [NoSweep EXCEPT !.active = TRUE, !.segment_limit = limit,
                                    !.n_soft_sp = n_soft_sp, !.n_seg = n_seg,
                                    !.compression_fact = compression_fact,
                                    !.factor = r.factor, !.warned = r.warned]
       IN IF r.err # ""
          THEN /\ raised' = r.err
               /\ pc' = "done"
               /\ sweep' = found
               /\ UNCHANGED <<seqHeap, segHeap, retval, mergeLocals>>
          ELSE /\ sweep' = [found EXCEPT
                               !.seg_lim_eff = EffectiveLimit(r.factor, n_seg)]
               /\ MergeEnter(<<EffectiveLimit(r.factor, n_seg)>>, flag,
                             "compress_ret")
    /\ UNCHANGED <<pulseObj, het>>

\* hard_sp_ind, soft_sp_ind and the return
CompressReturn ==
    /\ pc = "compress_ret"
    /\ sweep' = [sweep EXCEPT
                    !.hard_sp_ind =
                        arange(n_acq_elements(seqHeap, segHeap, retval[1])),
                    !.soft_sp_ind = arange(Len(retval))]
    /\ pc' = "done"
    /\ UNCHANGED <<seqHeap, segHeap, inputs, raised, retval, pre, mergeLocals,
                   gen>>
    /\ UNCHANGED <<pulseObj, het>>

----------------------------------------------------------------------------
\* Pulse shapes: MW_IQmod_pulse and SSB_DRAG_pulse.  Times are in ticks of
\* 0.25e-6 s, frequencies in units of 1e6 Hz (a quarter turn per tick),
\* phases in degrees, amplitudes in units of 0.1 V.

Families == {"MW_IQmod_pulse", "SSB_DRAG_pulse"}

\* The keyword arguments __init__ reads, with their default values.
Defaults(family) ==
    IF family = "MW_IQmod_pulse"
    THEN [mod_frequency |-> 1, amplitude |-> 1, length |-> 4, phase |-> 0,
          phaselock |-> TRUE]
    ELSE [amplitude |-> 1, sigma |-> 1, nr_sigma |-> 4, motzoi |-> 0,
          mod_frequency |-> 1, phase |-> 0, phaselock |-> TRUE,
          alpha |-> 1, phi_skew |-> 0]

\* The keyword arguments __call__ reads.
Recalled(family) ==
    IF family = "MW_IQmod_pulse"
    THEN {"mod_frequency", "amplitude", "length", "phase", "phaselock"}
    ELSE {"amplitude", "sigma", "nr_sigma", "motzoi", "mod_frequency",
          "phase", "phaselock"}

\* Values the caller passes for a keyword.
ValuesOf(k) ==
    CASE k = "mod_frequency" -> {0, 1}
      [] k = "amplitude" -> {1, 2}
      [] k = "length" -> {2, 4}
      [] k = "phase" -> {0, 90}
      [] k = "phaselock" -> BOOLEAN
      [] k = "sigma" -> {1, 2}
      [] k = "nr_sigma" -> {2, 4}
      [] k = "motzoi" -> {0, 1}
      [] k = "alpha" -> {1, 2}
      [] k = "phi_skew" -> {0, 180}

\* **kw: no keyword, one keyword or two keywords of the family.
KwArgs(family) ==
    LET names == DOMAIN Defaults(family)
    IN {<<>>}
       \cup UNION {{k :> v : v \in ValuesOf(k)} : k \in names}
       \cup UNION {UNION {{(k :> v) @@ (l :> w) :
                              v \in ValuesOf(k), w \in ValuesOf(l)} :
                          l \in names \ {k}} : k \in names}

\* kw.pop(k, default)
Pop(kw, k, default) == IF k \in DOMAIN kw THEN kw[k] ELSE default

\* self.length = self.sigma * self.nr_sigma
WithLength(family, attrs) ==
    IF family = "SSB_DRAG_pulse"
    THEN [k \in DOMAIN attrs \cup {"length"} |->
             IF k = "length" THEN attrs["sigma"] * attrs["nr_sigma"]
             ELSE attrs[k]]
    ELSE attrs

NoCall == [chan |-> "none", raised |-> "", wf |-> <<>>, I_env |-> <<>>,
           Q_env |-> <<>>, mod_tvals |-> <<>>]

NoPulse == [family |-> "none", attrs |-> <<>>, ret |-> "none",
            tvals |-> <<>>, call |-> NoCall]

\* __init__(name, I_channel, Q_channel, **kw)
Construct(family, kw) ==
    /\ pulseObj' = [NoPulse EXCEPT
                    !.family = family,
                    !.attrs = WithLength(family,
                                 [k \in DOMAIN Defaults(family) |->
                                     Pop(kw, k, Defaults(family)[k])])]
    /\ UNCHANGED <<sequenceVars, het>>

\* __call__(**kw): returns self
Recall(family, kw) ==
    /\ pulseObj.family = family
    /\ pulseObj' = [pulseObj EXCEPT
                    !.attrs = WithLength(pulseObj.family,
                                 [k \in DOMAIN Defaults(pulseObj.family) |->
                                     IF k \in Recalled(pulseObj.family)
                                     THEN Pop(kw, k, pulseObj.attrs[k])
                                     ELSE pulseObj.attrs[k]]),
                    !.ret = "self",
                    !.call = NoCall]
    /\ UNCHANGED <<sequenceVars, het>>

\* The channels of the pulse, and a channel it does not play on.
I_channel == "ch1"

Q_channel == "ch2"

EvalChannels == {I_channel, Q_channel, "ch3"}

\* cos and sin of a whole number of quarter turns
Cos4(q) == CASE q % 4 = 0 -> 1 [] q % 4 = 1 -> 0 [] q % 4 = 2 -> -1
             [] q % 4 = 3 -> 0

Sin4(q) == Cos4(q + 3)

\* 2*pi*(mod_frequency*t + phase/360), in quarter turns
Angle(attrs, t) == attrs["mod_frequency"] * t + (attrs["phase"] \div 90)

\* np.where(tvals >= tvals[0])[0][0], counted from 1
idx0(tvals) ==
    CHOOSE i \in DOMAIN tvals :
        /\ tvals[i] >= tvals[1]
        /\ \A j \in 1..(i - 1) : ~(tvals[j] >= tvals[1])

\* np.where(tvals <= tvals[0] + self.length)[0][-1] + 1: the last sample of
\* the slice, counted from 1
idx1(tvals, length) ==
    CHOOSE i \in DOMAIN tvals :
        /\ tvals[i] <= tvals[1] + length
        /\ \A j \in (i + 1)..Len(tvals) : ~(tvals[j] <= tvals[1] + length)

\* a[lo:hi], with lo and hi counted from 1 and hi included
Slice(a, lo, hi) == [n \in 1..(hi - lo + 1) |-> a[n + lo - 1]]

AlwaysShifted(attrs, tvals) ==
    [n \in DOMAIN tvals |-> tvals[n] - tvals[idx0(tvals)]]

\* if not self.phaselock: tvals = tvals.copy() - tvals[idx0]
Phaselocked(attrs, tvals) ==
    IF attrs["phaselock"] THEN tvals
    ELSE [n \in DOMAIN tvals |-> tvals[n] - tvals[idx0(tvals)]]

\* MW_IQmod_pulse.chan_wf: samples are numbers, np.zeros gives 0
MWChanWf(attrs, chan, tvals) ==
    LET tv == Phaselocked(attrs, tvals)
        lo == idx0(tvals)
        hi == idx1(tvals, attrs["length"])
    IN [NoCall EXCEPT
           !.chan = chan,
           !.mod_tvals = IF chan \in {I_channel, Q_channel}
                         THEN Slice(tv, lo, hi) ELSE <<>>,
           !.wf = [n \in DOMAIN tvals |->
                      IF n \in lo..hi /\ chan = I_channel
                      THEN 0 + attrs["amplitude"] * Cos4(Angle(attrs, tv[n]))
                      ELSE IF n \in lo..hi /\ chan = Q_channel
                      THEN 0 + attrs["amplitude"] * Sin4(Angle(attrs, tv[n]))
                      ELSE 0]]

\* A sample of SSB_DRAG_pulse is g*G[n] + d*D[n], divided by den, where G is
\* the offset-corrected Gaussian envelope of amplitude, sigma and the time
\* axis, and D the offset-corrected -(t-mu)/sigma * gauss envelope.
Sample(g, d, den) == [g |-> g, d |-> d, den |-> den]

OnesSample == Sample(1, 0, 1)

\* np.zeros
ZeroSample == Sample(0, 0, 1)

IsZero(x) == x.g = 0 /\ x.d = 0

\* x*k for a number k
Scale(x, k) == [x EXCEPT !.g = @ * k, !.d = @ * k]

\* x + y (one of the two has den = 1 and is zero, or both have the same den)
Plus(x, y) == Sample(x.g + y.g, x.d + y.d,
                     IF x.den = 1 THEN y.den ELSE x.den)

\* cos(2*pi*phi_skew/360) and tan(2*pi*phi_skew/360) for 0 and 180 degrees
CosDeg(phi) == Cos4(phi \div 90)

TanDeg(phi) == 0

\* gauss_env and deriv_gauss_env after the offsets are subtracted: one
\* sample per entry of t = tvals - tvals[0]
GaussEnv(attrs, tvals) == [n \in DOMAIN tvals |-> Sample(1, 0, 1)]

DerivGaussEnv(attrs, tvals) ==
    [n \in DOMAIN tvals |-> Sample(0, attrs["motzoi"], 1)]

\* Shape of an elementwise operation on arrays of n and m samples, 0 when
\* numpy cannot broadcast them
BroadcastLen(n, m) ==
    IF n = m THEN n ELSE IF n = 1 THEN m ELSE IF m = 1 THEN n ELSE 0

\* a[n] of an array broadcast to a longer shape
At(a, n) == IF Len(a) = 1 THEN a[1] ELSE a[n]

\* SSB_DRAG_pulse.apply_modulation
apply_modulation(attrs, I_env, Q_env, tvals) ==
    LET tan_phi_skew == TanDeg(attrs["phi_skew"])
        den == CosDeg(attrs["phi_skew"]) * attrs["alpha"]
        len == BroadcastLen(Len(I_env), Len(tvals))
        c(n) == Cos4(Angle(attrs, At(tvals, n)))
        s(n) == Sin4(Angle(attrs, At(tvals, n)))
    IN IF len = 0 THEN [raised |-> "ValueError", I_mod |-> <<>>, Q_mod |-> <<>>]
       ELSE [raised |-> "",
             I_mod |-> [n \in 1..len |->
                 Plus(Scale(At(I_env, n), c(n) - tan_phi_skew * s(n)),
                      Scale(At(Q_env, n), s(n) + tan_phi_skew * c(n)))],
             Q_mod |-> [n \in 1..len |->
                 [Plus(Scale(At(I_env, n), -1 * s(n)),
                       Scale(At(Q_env, n), c(n))) EXCEPT !.den = den]]]

\* wf[idx0:idx1] += mod
AddInto(wf, lo, hi, mod) ==
    IF Len(mod) \notin {hi - lo + 1, 1}
    THEN [raised |-> "ValueError", wf |-> <<>>]
    ELSE [raised |-> "",
          wf |-> [n \in DOMAIN wf |->
                     IF n \in lo..hi THEN Plus(wf[n], At(mod, n - lo + 1))
                     ELSE wf[n]]]

\* SSB_DRAG_pulse.chan_wf
DRAGChanWf(attrs, chan, tvals) ==
    LET lo == idx0(tvals)
        hi == idx1(tvals, attrs["length"])
        tv == Phaselocked(attrs, tvals)
        gauss_env == GaussEnv(attrs, tvals)
        deriv_gauss_env == DerivGaussEnv(attrs, tvals)
        zeros == [n \in DOMAIN tvals |-> ZeroSample]
        mod == apply_modulation(attrs, gauss_env, deriv_gauss_env,
                                Slice(tv, lo, hi))
        added == AddInto(zeros, lo, hi,
                         IF chan = I_channel THEN mod.I_mod ELSE mod.Q_mod)
        env == [NoCall EXCEPT !.chan = chan, !.I_env = gauss_env,
                              !.Q_env = deriv_gauss_env]
    IN IF chan \notin {I_channel, Q_channel}
       THEN [env EXCEPT !.wf = zeros]
       ELSE IF mod.raised # ""
       THEN [env EXCEPT !.raised = mod.raised,
                        !.mod_tvals = Slice(tv, lo, hi)]
       ELSE [env EXCEPT !.raised = added.raised, !.wf = added.wf,
                        !.mod_tvals = Slice(tv, lo, hi)]

\* The caller extends the time axis it will evaluate the pulse on.
AppendTime(t) ==
    /\ pulseObj.family \in Families
    /\ Len(pulseObj.tvals) < MaxAxisLen
    /\ pulseObj.tvals # <<>> => t > Last(pulseObj.tvals)
    /\ pulseObj' = [pulseObj EXCEPT !.tvals = Append(@, t), !.call = NoCall]
    /\ UNCHANGED <<sequenceVars, het>>

\* chan_wf(chan, tvals)
ChanWf(chan) ==
    /\ pulseObj.family \in Families
    /\ pulseObj.tvals # <<>>
    /\ pulseObj' = [pulseObj EXCEPT !.call =
                    IF pulseObj.family = "MW_IQmod_pulse"
                    THEN MWChanWf(pulseObj.attrs, chan, pulseObj.tvals)
                    ELSE DRAGChanWf(pulseObj.attrs, chan, pulseObj.tvals)]
    /\ UNCHANGED <<sequenceVars, het>>

----------------------------------------------------------------------------
\* HeterodyneInstrument and LO_modulated_Heterodyne: construction, on, off
\* and the status parameter.  A frame of the call stack is
\* <<method, argument, position>>.

\* No instrument.
NoHet == [cls |-> "none", accessors |-> FALSE, acq |-> "None",
          init |-> "no", param |-> FALSE, stack |-> <<>>, LO |-> "Off",
          RF |-> "Off", raised |-> ""]

Classes == {"HeterodyneInstrument", "LO_modulated_Heterodyne"}

Statuses == {"On", "Off"}

\* The states of the RF source of an object of the class:
\* HeterodyneInstrument.__init__ stores RF, LO_modulated_Heterodyne.__init__
\* takes no RF.
RFStatuses(cls) ==
    IF cls = "HeterodyneInstrument" THEN Statuses ELSE {"none"}

\* An object before its __init__ runs.  accessors tells whether the class
\* of the object defines the methods that common_init names and the two
\* classes of heterodyne.py leave undefined (_get_acquisition_instr,
\* _set_trigger_separation, _get_trigger_separation, _set_RO_length,
\* _get_RO_length, _set_acq_marker_channels, _get_acq_marker_channels):
\* FALSE for the two classes as they are, TRUE for a class derived from
\* them that adds the methods, acquisition_instr() giving the name that was
\* set.  acq is the acquisition_instr argument of __init__.
Allocated(cls, accessors, acq, lo, rf) ==
    [NoHet EXCEPT !.cls = cls, !.accessors = accessors, !.acq = acq,
                  !.LO = lo, !.RF = rf]

\* The acquisition_instr argument of __init__: None, a name that no
\* instrument has, the name of an instrument with 'UHFQC' in it, and the
\* name of another instrument (such as 'CBox').
AcquisitionInstrs == {"None", "nosuch", "UHFQC", "CBox"}

\* self.acquisition_instr(acquisition_instr) in common_init: the exception
\* it raises, "" for none.  The parameter takes strings only, and
\* _set_acquisition_instr looks the instrument up by its name.
SetAcquisitionInstr(acq) ==
    IF acq = "None" THEN "TypeError"
    ELSE IF acq = "nosuch" THEN "KeyError"
    ELSE ""

\* _set_acquisition_delay, called by LO_modulated_Heterodyne.__init__: the
\* exception it raises, "" for none.
SetAcquisitionDelay(acq) ==
    IF acq = "UHFQC" THEN "" ELSE "NotImplementedError"

\* Calls made on the object from outside: off(), on(), and
\* set('status', val).
Entries == {<<"off", "", "call">>, <<"on", "", "call">>,
            <<"set", "On", "call">>, <<"set", "Off", "call">>}

Top == het.stack[Len(het.stack)]

\* An exception that no frame catches; it also ends a running __init__.
Raise(exception) ==
    [het EXCEPT !.stack = <<>>, !.raised = exception,
                !.init = IF @ = "running" THEN "over" ELSE @]

\* A call made by the running frame; beyond the interpreter's recursion
\* limit it raises RecursionError.
Push(frame) ==
    IF Len(het.stack) >= MaxStackDepth
    THEN Raise("RecursionError")
    ELSE [het EXCEPT !.stack = Append([@ EXCEPT ![Len(@)][3] = "ret"], frame)]

\* The running frame moves to a position of its body.
Goto(h, position) ==
    [h EXCEPT !.stack[Len(h.stack)][3] = position]

\* __init__ up to self.status('Off') in common_init: reading
\* self._get_acquisition_instr raises AttributeError where the class does
\* not define it, before the status parameter is added; otherwise the
\* status parameter is added, the acquisition instrument is set, which can
\* raise, and the status is set to 'Off'.
HetInit ==
    /\ het.cls \in Classes
    /\ het.init = "no"
    /\ het' = IF ~het.accessors
              THEN [het EXCEPT !.init = "over", !.raised = "AttributeError"]
              ELSE IF SetAcquisitionInstr(het.acq) # ""
              THEN [het EXCEPT !.init = "over", !.param = TRUE,
                               !.raised = SetAcquisitionInstr(het.acq)]
              ELSE [het EXCEPT !.init = "running", !.param = TRUE,
                               !.stack = <<<<"set", "Off", "call">>>>]
    /\ UNCHANGED <<sequenceVars, pulseObj>>

\* The rest of __init__, once self.status('Off') has returned: the
\* frequencies are set on the sources, and LO_modulated_Heterodyne.__init__
\* sets mod_amp and acquisition_delay, which raises unless the acquisition
\* instrument is a UHFQC.
HetInitRest ==
    /\ het.init = "running"
    /\ het.stack = <<>>
    /\ het' = [het EXCEPT
                  !.init = "over",
                  !.raised = IF het.cls = "LO_modulated_Heterodyne"
                             THEN SetAcquisitionDelay(het.acq)
                             ELSE ""]
    /\ UNCHANGED <<sequenceVars, pulseObj>>

\* A call on the object once its __init__ has returned or raised.
HetCall(frame) ==
    /\ het.init = "over"
    /\ het.stack = <<>>
    /\ het' = [het EXCEPT !.stack = <<frame>>, !.raised = ""]
    /\ UNCHANGED <<sequenceVars, pulseObj>>

\* HeterodyneInstrument.off: self.set('status', 'Off')
OffBody == Push(<<"set", "Off", "call">>)

\* LO_modulated_Heterodyne.off: self.LO.off()
LOModOffBody == Goto([het EXCEPT !.LO = "Off"], "ret")

HetOff ==
    /\ het.stack # <<>> /\ Top[1] = "off" /\ Top[3] = "call"
    /\ het' = IF het.cls = "LO_modulated_Heterodyne" THEN LOModOffBody
              ELSE OffBody
    /\ UNCHANGED <<sequenceVars, pulseObj>>

\* set('status', val): the status parameter's set_cmd=self._set_status; an
\* object whose __init__ did not get to add the parameter has none.
HetSet ==
    /\ het.stack # <<>> /\ Top[1] = "set" /\ Top[3] = "call"
    /\ het' = IF het.param THEN Push(<<"_set_status", Top[2], "call">>)
              ELSE Raise("KeyError")
    /\ UNCHANGED <<sequenceVars, pulseObj>>

\* _set_status(val): on() for 'On', off() otherwise
HetSetStatus ==
    /\ het.stack # <<>> /\ Top[1] = "_set_status" /\ Top[3] = "call"
    /\ het' = IF Top[2] = "On" THEN Push(<<"on", "", "call">>)
              ELSE Push(<<"off", "", "call">>)
    /\ UNCHANGED <<sequenceVars, pulseObj>>

\* HeterodyneInstrument.on up to self.LO.on(): wait is kept in the frame.
OnBody ==
    LET wait == IF het.LO = "Off" \/ het.RF = "Off" THEN "wait" ELSE "nowait"
    IN [het EXCEPT !.LO = "On",
                   !.stack[Len(het.stack)] = <<"on", wait, "LO.on">>]

\* LO_modulated_Heterodyne.on: self.LO.on() if the LO is off, then the sleep
LOModOnBody ==
    IF het.LO = "Off" THEN Goto([het EXCEPT !.LO = "On"], "sleep")
    ELSE Goto(het, "ret")

HetOn ==
    /\ het.stack # <<>> /\ Top[1] = "on" /\ Top[3] = "call"
    /\ het' = IF het.cls = "LO_modulated_Heterodyne" THEN LOModOnBody
              ELSE OnBody
    /\ UNCHANGED <<sequenceVars, pulseObj>>

\* HeterodyneInstrument.on: self.RF.on()
HetOnRF ==
    /\ het.stack # <<>> /\ Top[1] = "on" /\ Top[3] = "LO.on"
    /\ het' = Goto([het EXCEPT !.RF = "On"],
                   IF Top[2] = "wait" THEN "sleep" ELSE "ret")
    /\ UNCHANGED <<sequenceVars, pulseObj>>

\* time.sleep(1.0) in on()
HetSleep ==
    /\ het.stack # <<>> /\ Top[1] = "on" /\ Top[3] = "sleep"
    /\ het' = Goto(het, "ret")
    /\ UNCHANGED <<sequenceVars, pulseObj>>

\* a frame whose body is over returns to its caller
HetReturn ==
    /\ het.stack # <<>> /\ Top[3] = "ret"
    /\ het' = [het EXCEPT !.stack = SubSeq(@, 1, Len(@) - 1)]
    /\ UNCHANGED <<sequenceVars, pulseObj>>

----------------------------------------------------------------------------
\* The caller builds sequences with the container operations and merges them.

InitSequence ==
    /\ seqHeap = <<>>
    /\ segHeap = <<>>
    /\ inputs = <<>>
    /\ pc = "build"
    /\ raised = ""
    /\ retval = <<>>
    /\ pre = [seqH |-> <<>>, segH |-> <<>>]
    /\ limit_arg = <<>>
    /\ segment_limit = <<>>
    /\ merge_repeat_patterns = TRUE
    /\ sequences = <<>>
    /\ merged_seqs = <<>>
    /\ seg_occurences = <<>>
    /\ segment_counter = 0
    /\ idx = 0
    /\ sweep = NoSweep
    /\ gen = NoGen

Init ==
    /\ InitSequence
    /\ pulseObj = NoPulse
    /\ het = NoHet

Next ==
    \/ NewSequence
    \/ \E i \in 1..MaxInputSize, name \in SegNames, acq \in 0..MaxAcq :
           Add(i, name, acq)
    \/ \E i \in 1..MaxInputSize, pulse \in Pulses, pattern \in Patterns :
           Repeat(i, pulse, pattern)
    \/ \E limit \in Limits, flag \in BOOLEAN : MergeCall(limit, flag)
    \/ MergeIter
    \/ MergeReturn

Spec == Init /\ [][Next]_vars

\* The caller also passes pulse_channel_names to repeat and uses repeat_ro.
\* What is built here stays within MaxRepeatSize objects.
RepeatSize ==
    Len(inputs)
    + SumSeq([i \in DOMAIN inputs |->
                n_segments(seqHeap, inputs[i])
                + n_acq_elements(seqHeap, segHeap, inputs[i])])

NextRepeat ==
    \/ NewSequence /\ RepeatSize' <= MaxRepeatSize
    \/ \E i \in 1..MaxRepeatSize, name \in SegNames, acq \in 0..MaxAcq :
           Add(i, name, acq) /\ RepeatSize' <= MaxRepeatSize
    \/ \E i \in 1..MaxRepeatSize, pulse \in Pulses, pattern \in Patterns,
          names \in ChannelNameArgs :
           RepeatOn(i, pulse, pattern, names)
    \/ \E i \in 1..MaxRepeatSize, pulse \in Pulses : RepeatRo(i, pulse)

SpecRepeat == Init /\ [][NextRepeat]_vars

\* The caller applies repeat_ro to the sequences it built and merges them.
RoSegNames == {PlainName("seg0"), PlainName("seg1")}

NextMergeRo ==
    \/ NewSequence
    \/ \E i \in 1..MaxInputSize, name \in RoSegNames, acq \in 0..MaxAcq :
           Add(i, name, acq)
    \/ \E i \in 1..MaxInputSize, pulse \in Pulses : RepeatRo(i, pulse)
    \/ \E limit \in Limits, flag \in BOOLEAN : MergeCall(limit, flag)
    \/ MergeIter
    \/ MergeReturn

SpecMergeRo == Init /\ [][NextMergeRo]_vars

----------------------------------------------------------------------------
\* The caller passes the sequences of a 2D sweep to compress_2D_sweep: n
\* sequences of n_seg segments with the same segment names, acquisition
\* elements and repeat patterns in every sequence; sequence number deviant,
\* if any, has one segment more.

SegBases == <<"seg0", "seg1", "seg2", "seg3", "seg4", "seg5">>

SweepCount(n_seg, deviant, i) == IF i = deviant THEN n_seg + 1 ELSE n_seg

SweepSeqHeap(n, n_seg, deviant, rp) ==
    [s \in {<<"in", i>> : i \in 1..n} |->
        [name |-> <<s[2]>>,
         segments |-> [j \in 1..SweepCount(n_seg, deviant, s[2]) |->
                          [key |-> PlainName(SegBases[j]),
                           seg |-> <<"in", s[2], j>>]],
         repeat_patterns |-> rp]]

SweepSegHeap(n, n_seg, deviant, acq) ==
    [g \in UNION {{<<"in", i, j>> : j \in 1..SweepCount(n_seg, deviant, i)} :
                  i \in 1..n} |->
        [name |-> PlainName(SegBases[g[3]]),
         acquisition_elements |-> AcqElements(acq)]]

\* Twelve sequences of five segments compressed under a limit of twenty.
TwelveByFive == [n |-> 12, n_seg |-> 5, deviant |-> 0]

LimitOfTwenty == <<20>>

SweepShapes ==
    {sh \in [n : 0..MaxSweepLen, n_seg : 0..MaxSweepSegs,
             deviant : 0..MaxSweepLen] : sh.deviant <= sh.n}
    \cup {TwelveByFive}

SweepLimits == {<<>>} \cup {<<n>> : n \in 1..MaxSweepLimit} \cup {LimitOfTwenty}

InitCompress ==
    /\ \E sh \in SweepShapes, acq \in 0..MaxAcq :
       \E rp \in {EmptyDict} \cup {RepeatDict(pulse, pattern) :
                                     pulse \in Pulses, pattern \in Patterns} :
           /\ seqHeap = SweepSeqHeap(sh.n, sh.n_seg, sh.deviant, rp)
           /\ segHeap = SweepSegHeap(sh.n, sh.n_seg, sh.deviant, acq)
           /\ inputs = [i \in 1..sh.n |-> <<"in", i>>]
    /\ pc = "build"
    /\ raised = ""
    /\ retval = <<>>
    /\ pre = [seqH |-> <<>>, segH |-> <<>>]
    /\ limit_arg = <<>>
    /\ segment_limit = <<>>
    /\ merge_repeat_patterns = TRUE
    /\ sequences = <<>>
    /\ merged_seqs = <<>>
    /\ seg_occurences = <<>>
    /\ segment_counter = 0
    /\ idx = 0
    /\ sweep = NoSweep
    /\ gen = NoGen
    /\ pulseObj = NoPulse
    /\ het = NoHet

NextCompress ==
    \/ \E limit \in SweepLimits, flag \in BOOLEAN : CompressCall(limit, flag)
    \/ MergeIter
    \/ MergeReturn
    \/ CompressReturn

SpecCompress == InitCompress /\ [][NextCompress]_vars

----------------------------------------------------------------------------
\* Segment, as far as generate_waveforms_sequences uses it.  An element of a
\* segment is [name, content, awgs]: content stands for the parameters of
\* the pulses the element holds, awgs for the AWGs their channels belong to.

AWGs == {"AWG1", "AWG2"}

AwgChannels == [awg \in AWGs |->
                   IF awg = "AWG1" THEN {"AWG1_ch1", "AWG1_ch2"}
                   ELSE {"AWG2_ch1"}]

\* self.pulsar.get(f'{ch}_id')
ChannelId(ch) == IF ch = "AWG1_ch2" THEN "ch2" ELSE "ch1"

Contents == {"p1", "p2"}

ElNames == {PlainName("e0"), PlainName("seg1")}

\* Segment.resolve_segment and Segment.gen_elements_on_awg
elements_on_awg(pulses) ==
    LET used == UNION {pulses[n].awgs : n \in DOMAIN pulses}
    IN [awg \in used |->
           LET on == SelectSeq(pulses, LAMBDA e : awg \in e.awgs)
           IN [n \in DOMAIN on |-> on[n].name]]

Unresolved(seg) == seg

Resolve(seg) ==
    [seg EXCEPT !.elements_on_awg = elements_on_awg(seg.pulses),
                !.resolved = @ + 1]

ElementNamed(seg, elname) ==
    seg.pulses[CHOOSE n \in DOMAIN seg.pulses : seg.pulses[n].name = elname]

\* Segment.get_element_codewords
get_element_codewords(seg, elname, awg) ==
    IF ElementNamed(seg, elname).content = "p1"
    THEN {"no_codeword"} ELSE {"cw0", "cw1"}

\* Segment.get_element_channels
get_element_channels(seg, elname, awg) == AwgChannels[awg]

\* Segment.calculate_hash: decided by the pulses contributing to the
\* element's waveform on the channel for the codeword
calculate_hash(seg, elname, cw, ch) ==
    <<ElementNamed(seg, elname).content, cw, ch>>

\* Segment.waveforms for one awg, element, channel and codeword, and the
\* array left after the four popitem()[1]; origin tells the arrays of
\* different evaluations apart.
waveforms(seg, awg, elname, ch, cw) ==
    [samples |-> <<ElementNamed(seg, elname).content, cw, ch>>,
     origin |-> <<seg.name, awg, elname, cw, ch>>]

\* The orders in which a for loop can visit a set: the iteration order of a
\* set of strings changes with the hash seed of the interpreter, so every
\* enumeration of the set is possible.
IterationOrders(S) ==
    {s \in [1..Cardinality(S) -> S] : Range(s) = S}

----------------------------------------------------------------------------
\* Sequence.generate_waveforms_sequences

\* odict[key] = value: a new key goes last, a present key keeps its place
OdictSet(od, key, value) ==
    IF key \in Keys(od)
    THEN [n \in DOMAIN od |->
             IF od[n].key = key THEN [key |-> key, value |-> value] ELSE od[n]]
    ELSE Append(od, [key |-> key, value |-> value])

OdictGet(od, key) == od[CHOOSE n \in DOMAIN od : od[n].key = key].value

InvertedCheck(h, table) == h \in DOMAIN table

AlwaysEvaluate(h, table) == TRUE

\* if h not in waveforms
NotInWaveforms(h, table) == h \notin DOMAIN table

Increment(counts, h) ==
    IF h \in DOMAIN counts THEN [counts EXCEPT ![h] = @ + 1]
    ELSE counts @@ (h :> 1)

\* for cw ...: for ch ...: the pairs <<cw, ch>> in turn.  st = [waveforms,
\* entry, n_evaluations, hashed, n_references], entry being
\* sequences[awg][elname].
RECURSIVE HashChannels(_, _, _, _, _, _)
HashChannels(st, seg, awg, elname, pairs, n) ==
    IF n > Len(pairs) THEN st
    ELSE
    LET cw == pairs[n][1]
        ch == pairs[n][2]
        h == calculate_hash(seg, elname, cw, ch)
        chid == ChannelId(ch)
        evaluate == NotInWaveforms(h, st.waveforms)
    IN HashChannels(
           [st EXCEPT
               !.entry.codewords[cw] = Update(@, chid :> h),
               !.waveforms = IF evaluate
                             THEN Update(@, h :> waveforms(seg, awg, elname, ch, cw))
                             ELSE @,
               !.n_evaluations = IF evaluate THEN Increment(@, h) ELSE @,
               !.hashed = @ \cup {h},
               !.n_references = @ + 1],
           seg, awg, elname, pairs, n + 1)

GenSelf == seqHeap[inputs[1]]

GenSegment(n) == segHeap[GenSelf.segments[n].seg]

\* seg.elements_on_awg.get(awg, [])
ElementsOn(seg, awg) ==
    IF awg \in DOMAIN seg.elements_on_awg THEN seg.elements_on_awg[awg]
    ELSE <<>>

\* for seg in self.segments.values(): seg.resolve_segment();
\* seg.gen_elements_on_awg() -- the calls made, by position of the segment
RECURSIVE ResolveCalls(_)
ResolveCalls(n) ==
    IF n = 0 THEN <<>>
    ELSE ResolveCalls(n - 1)
             \o <<<<"resolve_segment", n>>, <<"gen_elements_on_awg", n>>>>

\* Lines 51-60: every segment is resolved, then awgs defaults to the AWGs
\* the segments have elements on.
GenCall(awgs_arg) ==
    /\ pc = "build"
    /\ LET refs == [n \in DOMAIN GenSelf.segments |-> GenSelf.segments[n].seg]
           resolved == [g \in DOMAIN segHeap |->
                           IF g \in Range(refs) THEN Resolve(segHeap[g])
                           ELSE segHeap[g]]
           awgs == IF awgs_arg = <<>>
                   THEN UNION {DOMAIN resolved[refs[n]].elements_on_awg :
                                  n \in DOMAIN refs}
                   ELSE awgs_arg[1]
       IN /\ segHeap' = resolved
          /\ gen' = [NoGen EXCEPT !.awgs_arg = awgs_arg, !.awgs = awgs,
                                  !.todo = awgs, !.seg = Len(refs) + 1,
                                  !.calls = ResolveCalls(Len(refs))]
    /\ pc' = "compile"
    /\ raised' = ""
    /\ UNCHANGED <<seqHeap, inputs, retval, pre, mergeLocals, sweep>>
    /\ UNCHANGED <<pulseObj, het>>

\* One element of "for elname in seg.elements_on_awg.get(awg, [])": its
\* entry, codewords, channels and metadata.  g is the record gen; cws and
\* chs are the orders in which the two loops visit the element's codewords
\* and channels.
CompileElement(g, seg, awg, elname, cws, chs) ==
    LET pairs == [n \in 1..(Len(cws) * Len(chs)) |->
                     <<cws[((n - 1) \div Len(chs)) + 1],
                       chs[((n - 1) % Len(chs)) + 1]>>]
        st == HashChannels(
                  [waveforms |-> g.waveforms,
                   entry |-> [kind |-> "element",
                              metadata |-> EmptyDict,
                              codewords |-> [cw \in Range(cws) |-> EmptyDict]],
                   n_evaluations |-> g.n_evaluations,
                   hashed |-> g.hashed,
                   n_references |-> g.n_references],
                  seg, awg, elname, pairs, 1)
        entry == [st.entry EXCEPT !.metadata =
                     "acq" :> (elname \in seg.acquisition_elements)]
    IN [g EXCEPT !.waveforms = st.waveforms,
                 !.n_evaluations = st.n_evaluations,
                 !.hashed = st.hashed,
                 !.n_references = st.n_references,
                 !.sequences[awg] = OdictSet(@, elname, entry)]

\* The records gen that the loop over the elements can leave, from the
\* records gs it can start in: one for every order of visiting each
\* element's codewords and channels.
RECURSIVE CompileElements(_, _, _, _, _)
CompileElements(gs, seg, awg, els, n) ==
    IF n > Len(els) THEN gs
    ELSE CompileElements(
             {CompileElement(g, seg, awg, els[n], cws, chs) :
                  g \in gs,
                  cws \in IterationOrders(
                              get_element_codewords(seg, els[n], awg)),
                  chs \in IterationOrders(
                              get_element_channels(seg, els[n], awg))},
             seg, awg, els, n + 1)

\* for awg in awgs: sequences[awg] = odict()
GenAwg ==
    /\ pc = "compile"
    /\ gen.seg > Len(GenSelf.segments)
    /\ \E awg \in gen.todo :
           gen' = [gen EXCEPT !.todo = @ \ {awg}, !.awg = awg, !.seg = 1,
                              !.sequences = Update(@, awg :> <<>>)]
    /\ UNCHANGED <<seqHeap, segHeap, inputs, pc, raised, retval, pre,
                   mergeLocals, sweep>>
    /\ UNCHANGED <<pulseObj, het>>

\* for segname, seg in self.segments.items(): the segment's name, then its
\* elements on the awg
GenSeg ==
    /\ pc = "compile"
    /\ gen.seg <= Len(GenSelf.segments)
    /\ LET seg == GenSegment(gen.seg)
           named == [gen EXCEPT
                        !.sequences[gen.awg] =
                            OdictSet(@, GenSelf.segments[gen.seg].key,
                                     [kind |-> "None"])]
       IN \E g \in CompileElements({named}, seg, gen.awg,
                                    ElementsOn(seg, gen.awg), 1) :
              gen' = [g EXCEPT !.seg = @ + 1]
    /\ UNCHANGED <<seqHeap, segHeap, inputs, pc, raised, retval, pre,
                   mergeLocals, sweep>>
    /\ UNCHANGED <<pulseObj, het>>

\* return waveforms, sequences
GenReturn ==
    /\ pc = "compile"
    /\ gen.seg > Len(GenSelf.segments)
    /\ gen.todo = {}
    /\ pc' = "done"
    /\ UNCHANGED <<seqHeap, segHeap, inputs, raised, retval, pre, mergeLocals,
                   sweep, gen>>
    /\ UNCHANGED <<pulseObj, het>>

----------------------------------------------------------------------------
\* The caller fills one Sequence with segments and their elements and
\* compiles it.

GenSize ==
    Len(GenSelf.segments)
    + SumSeq([n \in DOMAIN GenSelf.segments |-> Len(GenSegment(n).pulses)])

\* Sequence.add of a new, empty Segment
AddNewSegment ==
    /\ pc = "build"
    /\ GenSize + 1 <= MaxGenSize
    /\ Len(GenSelf.segments) < Len(SegBases)
    /\ LET s == inputs[1]
           g == <<"in", 1, n_segments(seqHeap, s) + 1>>
           segH == segHeap @@
                     (g :> [name |-> PlainName(SegBases[g[3]]),
                            acquisition_elements |-> {},
                            pulses |-> <<>>,
                            elements_on_awg |-> EmptyDict,
                            resolved |-> 0])
       IN /\ ~AddRaises(seqHeap, segH, s, g)
          /\ segHeap' = segH
          /\ seqHeap' = AddStore(seqHeap, segH, s, g)
    /\ UNCHANGED <<inputs, pc, raised, retval, pre, mergeLocals, sweep, gen>>
    /\ UNCHANGED <<pulseObj, het>>

\* Segment.add of the pulses of one more element
SegmentAdd(n, elname, content, awgs, acq) ==
    /\ pc = "build"
    /\ n \in DOMAIN GenSelf.segments
    /\ GenSize + 1 <= MaxGenSize
    /\ \A m \in DOMAIN GenSegment(n).pulses : GenSegment(n).pulses[m].name # elname
    /\ segHeap' = [segHeap EXCEPT
                      ![GenSelf.segments[n].seg] =
                          [@ EXCEPT
                              !.pulses = Append(@, [name |-> elname,
                                                    content |-> content,
                                                    awgs |-> awgs]),
                              !.acquisition_elements =
                                  IF acq THEN @ \cup {elname} ELSE @]]
    /\ UNCHANGED <<seqHeap, inputs, pc, raised, retval, pre, mergeLocals, sweep,
                   gen>>
    /\ UNCHANGED <<pulseObj, het>>

AwgArgs == {<<>>, <<{"AWG1"}>>, <<AWGs>>}

InitGen ==
    /\ seqHeap = (<<"in", 1>> :> NewSequenceObject(<<1>>))
    /\ segHeap = <<>>
    /\ inputs = <<<<"in", 1>>>>
    /\ pc = "build"
    /\ raised = ""
    /\ retval = <<>>
    /\ pre = [seqH |-> <<>>, segH |-> <<>>]
    /\ limit_arg = <<>>
    /\ segment_limit = <<>>
    /\ merge_repeat_patterns = TRUE
    /\ sequences = <<>>
    /\ merged_seqs = <<>>
    /\ seg_occurences = <<>>
    /\ segment_counter = 0
    /\ idx = 0
    /\ sweep = NoSweep
    /\ gen = NoGen
    /\ pulseObj = NoPulse
    /\ het = NoHet

NextGen ==
    \/ AddNewSegment
    \/ \E n \in 1..MaxGenSize, elname \in ElNames, content \in Contents,
          awgs \in (SUBSET AWGs) \ {{}}, acq \in BOOLEAN :
           SegmentAdd(n, elname, content, awgs, acq)
    \/ \E awgs_arg \in AwgArgs : GenCall(awgs_arg)
    \/ GenAwg
    \/ GenSeg
    \/ GenReturn

SpecGen == InitGen /\ [][NextGen]_vars

----------------------------------------------------------------------------
\* Pulses are constructed and recalled; a pulse is evaluated on a time axis.

NextRecall ==
    \/ \E family \in Families : \E kw \in KwArgs(family) :
           Construct(family, kw)
    \/ \E family \in Families : \E kw \in KwArgs(family) :
           Recall(family, kw)

SpecRecall == Init /\ [][NextRecall]_vars

NextPulse ==
    \/ \E family \in Families : \E kw \in KwArgs(family) :
           Construct(family, kw)
    \/ \E t \in 0..MaxTick : AppendTime(t)
    \/ \E chan \in EvalChannels : ChanWf(chan)

SpecPulse == Init /\ [][NextPulse]_vars

----------------------------------------------------------------------------
\* An object of either class, with its sources in some state, is
\* initialised and then switched.

InitHet ==
    /\ InitSequence
    /\ pulseObj = NoPulse
    /\ \E cls \in Classes, accessors \in BOOLEAN, lo \in Statuses,
          acq \in AcquisitionInstrs :
           \E rf \in RFStatuses(cls) :
               het = Allocated(cls, accessors, acq, lo, rf)

NextHet ==
    \/ HetInit
    \/ HetInitRest
    \/ \E frame \in Entries : HetCall(frame)
    \/ HetOff
    \/ HetSet
    \/ HetSetStatus
    \/ HetOn
    \/ HetOnRF
    \/ HetSleep
    \/ HetReturn

\* Every call that is running takes its next step.
SpecHet == InitHet /\ [][NextHet]_vars /\ WF_vars(NextHet)

----------------------------------------------------------------------------
\* Properties of Sequence.merge.

\* merge has returned (its caller may be compress_2D_sweep)
Returned == pc = "done" /\ raised = ""

SegmentNames(seqH, segH, s) ==
    [n \in DOMAIN seqH[s].segments |-> segH[seqH[s].segments[n].seg].name]

SegmentKeys(seqH, s) ==
    [n \in DOMAIN seqH[s].segments |-> seqH[s].segments[n].key]

\* The Segment objects of a Sequence by where the caller put them:
\* <<i, j>> for the j-th segment of the i-th input, or its copy.
Origins(seqH, s) ==
    [n \in DOMAIN seqH[s].segments |->
        <<seqH[s].segments[n].seg[2], seqH[s].segments[n].seg[3]>>]

RECURSIVE Flatten(_)
Flatten(ss) == IF ss = <<>> THEN <<>> ELSE ss[1] \o Flatten(Tail(ss))

\* C3: every Sequence of the list merge returns has n_segments() <=
\* segment_limit, the first one and the single-input case included.
MergeRespectsLimit ==
    (Returned /\ limit_arg # <<>>) =>
        \A k \in DOMAIN retval : n_segments(seqHeap, retval[k]) <= limit_arg[1]

\* C4: a name collision never makes merge fail: no exception of the
\* renaming (the KeyError of seg_occurences, the NameError of the second
\* add) leaves merge.
NameCollisionsNeverFail ==
    pc = "done" => raised \notin {"KeyError", "NameError"}

TwoSeg0Inputs ==
    /\ Len(inputs) = 2
    /\ \A i \in 1..2 :
           SegmentNames(pre.seqH, pre.segH, inputs[i]) = <<PlainName("seg0")>>

\* Repeat patterns that merge reconciles rather than refuses.
ReconcilablePatterns ==
    \/ ~merge_repeat_patterns
    \/ LET P == pre.seqH[inputs[1]].repeat_patterns
           Q == pre.seqH[inputs[2]].repeat_patterns
       IN \A ch \in DOMAIN P \cap DOMAIN Q : P[ch][2] = Q[ch][2]

Seg0MergedAs(second) ==
    /\ raised = ""
    /\ Len(retval) = 1
    /\ SegmentNames(seqHeap, segHeap, retval[1]) = <<PlainName("seg0"), second>>
    /\ SegmentKeys(seqHeap, retval[1]) = <<PlainName("seg0"), second>>

\* C5 as stated: merging two Sequences that each hold one Segment named
\* seg0 raises nothing and gives one Sequence with the segments seg0 and
\* seg0_copy_from_merge_0.
Seg0CollisionRenamedCopy0 ==
    (pc = "done" /\ TwoSeg0Inputs /\ limit_arg = <<>>) =>
        Seg0MergedAs(CopyName(PlainName("seg0"), 0))

\* C5 amended: merging two Sequences that each hold one Segment named seg0,
\* with repeat patterns merge does not refuse, raises nothing and gives one
\* Sequence with the segments seg0 and seg0_copy_from_merge_1.
Seg0CollisionRenamedCopy1 ==
    (pc = "done" /\ TwoSeg0Inputs /\ limit_arg = <<>> /\ ReconcilablePatterns) =>
        Seg0MergedAs(CopyName(PlainName("seg0"), 1))

Seg0CollisionMerged ==
    pc = "done" /\ TwoSeg0Inputs /\ limit_arg = <<>> /\ raised = ""
    /\ Len(retval) = 1 /\ n_segments(seqHeap, retval[1]) = 2

\* C6: after merge has returned or raised, every Sequence the caller passed
\* has its name, its segments (keys, order, Segment.name) and its
\* repeat_patterns as before the call.
InputsNotMutated ==
    pc = "done" =>
        /\ \A s \in DOMAIN pre.seqH : seqHeap[s] = pre.seqH[s]
        /\ \A g \in DOMAIN pre.segH : segHeap[g] = pre.segH[g]

RaisedAfterRenaming ==
    /\ pc = "done"
    /\ raised = "NotImplementedError"
    /\ \E g \in DOMAIN segHeap :
           /\ g[1] = "cp"
           /\ segHeap[g].name # segHeap[<<"in", g[2], g[3]>>].name

\* A name is the original name or the original name with one suffix.
RenamingOf(name, orig) ==
    name = orig \/ \E k \in 0..MaxInputSize : name = CopyName(orig, k)

GroupingOfResult ==
    Returned =>
        /\ Flatten([k \in DOMAIN retval |-> seqHeap[retval[k]].name])
               = [i \in DOMAIN inputs |-> i]
        /\ \A k \in DOMAIN retval :
               LET group == seqHeap[retval[k]].name
               IN /\ Origins(seqHeap, retval[k]) =
                         Flatten([m \in DOMAIN group |->
                                     Origins(pre.seqH, inputs[group[m]])])
                  /\ LET o == Origins(seqHeap, retval[k])
                     IN \A n \in DOMAIN o :
                            /\ RenamingOf(
                                   SegmentNames(seqHeap, segHeap, retval[k])[n],
                                   pre.segH[<<"in", o[n][1], o[n][2]>>].name)
                            /\ SegmentKeys(seqHeap, retval[k])[n] =
                                   SegmentNames(seqHeap, segHeap, retval[k])[n]

FoldedExactlyWhenFits ==
    (pc = "loop" /\ idx <= Len(sequences) /\ pc' = "loop") =>
        LET nacc == n_segments(seqHeap, Last(merged_seqs))
            nseq == n_segments(seqHeap, sequences[idx])
        IN IF segment_limit = <<>> \/ nacc + nseq <= segment_limit[1]
           THEN /\ merged_seqs' = merged_seqs
                /\ n_segments(seqHeap', Last(merged_seqs)) = nacc + nseq
           ELSE merged_seqs' = Append(merged_seqs, sequences[idx])

\* C7: the list merge returns partitions the inputs into consecutive groups
\* in input order; each returned Sequence holds the segments of its group's
\* inputs in input order, renamed or not, none dropped or duplicated; a
\* sequence is folded into the current accumulator exactly when the two
\* segment counts together are within segment_limit, and starts a new
\* accumulator otherwise.
GreedyFirstFit == [][FoldedExactlyWhenFits]_vars /\ []GroupingOfResult

SplitInTwoGroups ==
    /\ Returned
    /\ Len(inputs) = 3
    /\ Len(retval) = 2
    /\ n_segments(seqHeap, retval[1]) = 2
    /\ Len(seqHeap[retval[1]].name) = 2

\* C8: without segment_limit, merge of a non-empty list returns one
\* Sequence holding as many segments as all inputs together (the documented
\* refusal of irreconcilable repeat patterns aside).
NoLimitMergesAll ==
    (pc = "done" /\ limit_arg = <<>> /\ Len(inputs) >= 1
     /\ raised # "NotImplementedError") =>
        /\ raised = ""
        /\ Len(retval) = 1
        /\ n_segments(seqHeap, retval[1]) =
               SumSeq([i \in DOMAIN inputs |-> n_segments(pre.seqH, inputs[i])])

\* C9: when a sequence is folded into the accumulator with
\* merge_repeat_patterns=True, merge raises if a channel both define has
\* different second components; otherwise a channel both define gets
\* (count_accumulator + count_incoming, inner_loop_size), a channel only the
\* incoming sequence defines is added unchanged, and the others are kept.
RepeatPatternsReconciled ==
    [][ LET acc == Last(merged_seqs)
            seq == sequences[idx]
            P == seqHeap[acc].repeat_patterns
            Q == seqHeap[seq].repeat_patterns
        IN (/\ pc = "loop" /\ idx <= Len(sequences)
            /\ merge_repeat_patterns
            /\ ~Exceeds(n_segments(seqHeap, seq), segment_limit)
            /\ ~Exceeds(n_segments(seqHeap, acc) + n_segments(seqHeap, seq),
                        segment_limit)
            /\ raised' \notin {"KeyError", "NameError"}) =>
           IF \E ch \in DOMAIN P \cap DOMAIN Q : P[ch][2] # Q[ch][2]
           THEN raised' = "NotImplementedError" /\ pc' = "done"
           ELSE /\ raised' = ""
                /\ seqHeap'[acc].repeat_patterns =
                       [ch \in DOMAIN P \cup DOMAIN Q |->
                           IF ch \in DOMAIN P \cap DOMAIN Q
                           THEN <<P[ch][1] + Q[ch][1], P[ch][2]>>
                           ELSE IF ch \in DOMAIN Q THEN Q[ch] ELSE P[ch]]
      ]_vars

CountsSummed ==
    /\ Returned
    /\ merge_repeat_patterns
    /\ \E k \in DOMAIN retval :
           /\ "ch1" \in DOMAIN seqHeap[retval[k]].repeat_patterns
           /\ seqHeap[retval[k]].repeat_patterns["ch1"][1] = 2

\* Keys and names agree and no name occurs twice.
UniquelyNamed(seqH, segH, s) ==
    /\ SegmentKeys(seqH, s) = SegmentNames(seqH, segH, s)
    /\ \A m, n \in DOMAIN seqH[s].segments :
           SegmentNames(seqH, segH, s)[m] = SegmentNames(seqH, segH, s)[n]
               => m = n

\* C15: in every Sequence the caller holds, built by add or returned by
\* merge, every key of segments is the name of the Segment stored under it
\* and no two segments have the same name.
SegmentNamesUnique ==
    /\ \A i \in DOMAIN inputs : UniquelyNamed(seqHeap, segHeap, inputs[i])
    /\ Returned =>
           \A k \in DOMAIN retval : UniquelyNamed(seqHeap, segHeap, retval[k])

RenamedSegmentReturned ==
    /\ Returned
    /\ \E k \in DOMAIN retval :
           /\ n_segments(seqHeap, retval[k]) >= 3
           /\ \E n \in DOMAIN seqHeap[retval[k]].segments :
                  LET o == Origins(seqHeap, retval[k])[n]
                  IN SegmentNames(seqHeap, segHeap, retval[k])[n]
                         # pre.segH[<<"in", o[1], o[2]>>].name

\* C16: add of a segment whose name is a key of the sequence raises and
\* leaves segments as it was; add of a segment with a new name puts it last,
\* under its name, and keeps the entries before it.
AddAppendsOrRaises ==
    [][ \A i \in 1..MaxInputSize, name \in SegNames, acq \in 0..MaxAcq :
            Add(i, name, acq) =>
                LET s == inputs[i]
                    old == seqHeap[s].segments
                    new == seqHeap'[s].segments
                IN IF \E n \in DOMAIN old : old[n].key = name
                   THEN /\ raised' = "NameError"
                        /\ seqHeap' = seqHeap
                        /\ segHeap' = segHeap
                   ELSE /\ raised' = ""
                        /\ Len(new) = Len(old) + 1
                        /\ \A n \in DOMAIN old : new[n] = old[n]
                        /\ Last(new).key = name
                        /\ segHeap'[Last(new).seg].name = name
                        /\ \A g \in DOMAIN segHeap : segHeap'[g] = segHeap[g]
                        /\ \A t \in DOMAIN seqHeap \ {s} : seqHeap'[t] = seqHeap[t]
      ]_vars

DuplicateAddRefused ==
    /\ pc = "build"
    /\ raised = "NameError"
    /\ \E i \in DOMAIN inputs : n_segments(seqHeap, inputs[i]) >= 2

\* merge was called by the caller itself and has returned or raised.
MergeDone == pc = "done" /\ ~sweep.active /\ gen = NoGen

\* C17: merge of a list of one sequence raises nothing, whatever
\* segment_limit is, and returns a list of that same sequence, whose name,
\* segments and repeat patterns are as before.
SingleInputReturnedAsIs ==
    (MergeDone /\ Len(inputs) = 1) =>
        /\ raised = ""
        /\ retval = inputs
        /\ seqHeap = pre.seqH
        /\ segHeap = pre.segH

SingleInputOverLimit ==
    /\ MergeDone
    /\ Len(inputs) = 1
    /\ limit_arg = <<1>>
    /\ n_segments(seqHeap, inputs[1]) = 2
    /\ seqHeap[inputs[1]].repeat_patterns # EmptyDict
    /\ retval = inputs

\* C18: merge of an empty list raises ValueError and returns nothing.
EmptyListRaisesValueError ==
    (MergeDone /\ Len(inputs) = 0) =>
        /\ raised = "ValueError"
        /\ retval = <<>>
        /\ merged_seqs = <<>>

EmptyListMerged ==
    MergeDone /\ inputs = <<>> /\ raised # ""

----------------------------------------------------------------------------
\* Properties of Sequence.compress_2D_sweep.

CompressReturned == pc = "done" /\ sweep.active /\ raised = ""

\* C10: the factor compress_2D_sweep returns divides len(sequences),
\* satisfies factor * n_seg <= segment_limit, and no larger divisor does.
FactorIsLargestFeasibleDivisor ==
    CompressReturned =>
        LET n == Len(inputs)
            n_seg == n_segments(pre.seqH, inputs[1])
            Feasible(d) == n % d = 0
                           /\ ~Exceeds(d * n_seg, sweep.segment_limit)
        IN /\ sweep.factor \in 1..n
           /\ Feasible(sweep.factor)
           /\ \A d \in 1..n : Feasible(d) => d <= sweep.factor

\* compress_2D_sweep has been called and has returned or raised.
CompressDone == pc = "done" /\ sweep.active

\* The inputs have one segment count, factor 1 respects the limit and no
\* larger divisor of len(sequences) does.
OnlyFactorOneQualifies ==
    /\ Len(inputs) >= 1
    /\ \A i \in DOMAIN inputs :
           n_segments(pre.seqH, inputs[i]) = n_segments(pre.seqH, inputs[1])
    /\ LET n == Len(inputs)
           n_seg == n_segments(pre.seqH, inputs[1])
       IN /\ ~Exceeds(n_seg, sweep.segment_limit)
          /\ \A d \in 2..n :
                 n % d = 0 => Exceeds(d * n_seg, sweep.segment_limit)

\* C11: when 1 is the only factor that qualifies, a single input included,
\* compress_2D_sweep warns and returns factor 1 with one sequence per input,
\* holding that input's segments.
OnlyFactorOneWarnsAndReturns ==
    (CompressDone /\ OnlyFactorOneQualifies) =>
        /\ raised = ""
        /\ sweep.warned
        /\ sweep.factor = 1
        /\ Len(retval) = Len(inputs)
        /\ \A k \in DOMAIN retval :
               SegmentNames(seqHeap, segHeap, retval[k]) =
                   SegmentNames(pre.seqH, pre.segH, inputs[k])

TwelveSequencesOfFive ==
    /\ Len(inputs) = 12
    /\ \A i \in DOMAIN inputs : n_segments(pre.seqH, inputs[i]) = 5
    /\ sweep.segment_limit = <<20>>

\* C12: when compress_2D_sweep returns factor f for inputs of n_seg segments
\* each, it returns len(sequences) / f sequences of f * n_seg segments each;
\* 12 sequences of 5 segments with segment_limit 20 give f = 4 and 3
\* sequences of 20 segments.
CompressedShape ==
    /\ CompressReturned =>
           /\ Len(retval) * sweep.factor = Len(inputs)
           /\ \A k \in DOMAIN retval :
                  n_segments(seqHeap, retval[k]) =
                      sweep.factor * n_segments(pre.seqH, inputs[1])
    /\ (CompressDone /\ TwelveSequencesOfFive) =>
           /\ raised = ""
           /\ sweep.factor = 4
           /\ Len(retval) = 3
           /\ \A k \in DOMAIN retval : n_segments(seqHeap, retval[k]) = 20

TwelveByFiveCompressed ==
    CompressReturned /\ TwelveSequencesOfFive /\ Len(retval) = 3

TwoSegmentCounts ==
    \E i, j \in DOMAIN inputs :
        n_segments(pre.seqH, inputs[i]) # n_segments(pre.seqH, inputs[j])

\* C13: inputs with two different segment counts are rejected by
\* compress_2D_sweep before anything is copied or merged, the inputs being
\* left as they were.
UnequalCountsRejected ==
    (sweep.active /\ TwoSegmentCounts) =>
        /\ pc = "done"
        /\ raised = "AssertionError"
        /\ retval = <<>>
        /\ sequences = <<>> /\ merged_seqs = <<>>
        /\ seqHeap = pre.seqH /\ segHeap = pre.segH

DeviantSweepRejected ==
    /\ CompressDone
    /\ TwoSegmentCounts
    /\ Len(inputs) >= 3
    /\ raised = "AssertionError"

\* The acquisition elements of the segments of the inputs folded into the
\* Sequence s, told apart by input, segment and element.
AcquisitionsFoldedInto(s) ==
    UNION {UNION {{<<i, j>>} \X pre.segH[<<"in", i, j>>].acquisition_elements :
                     j \in 1..n_segments(pre.seqH, inputs[i])} :
              i \in Range(seqHeap[s].name)}

\* C14: compress_2D_sweep returns the hardware-sweep indices 0..k-1, k being
\* the number of acquisition elements of all segments folded into the first
\* compressed sequence, and the software-sweep indices 0..m-1, m being the
\* number of compressed sequences.
SweepIndices ==
    CompressReturned =>
        /\ sweep.hard_sp_ind =
               [k \in 1..Cardinality(AcquisitionsFoldedInto(retval[1])) |-> k - 1]
        /\ sweep.soft_sp_ind = [m \in 1..Len(retval) |-> m - 1]

IndicesOfCompressedSweep ==
    /\ CompressReturned
    /\ sweep.factor >= 2
    /\ Len(sweep.hard_sp_ind) >= 2
    /\ Len(sweep.soft_sp_ind) >= 2

----------------------------------------------------------------------------
\* Properties of Sequence.generate_waveforms_sequences.

HashesOfProgram ==
    UNION {UNION {UNION {Range(gen.sequences[awg][n].value.codewords[cw]) :
                            cw \in DOMAIN gen.sequences[awg][n].value.codewords} :
                     n \in {m \in DOMAIN gen.sequences[awg] :
                               gen.sequences[awg][m].value.kind = "element"}} :
              awg \in DOMAIN gen.sequences}

EvaluatedAtMostOnce ==
    /\ \A h \in DOMAIN gen.n_evaluations : gen.n_evaluations[h] <= 1
    /\ pc = "done" =>
           Cardinality(DOMAIN gen.waveforms) = Cardinality(gen.hashed)

StoredArrayKept ==
    \A h \in DOMAIN gen.waveforms :
        h \in DOMAIN gen.waveforms' /\ gen.waveforms'[h] = gen.waveforms[h]

\* C1: within one call Segment.waveforms is invoked at most once per hash;
\* an array stored under a hash is never replaced; the returned table has
\* as many entries as distinct hashes were computed.
OneEvaluationPerHash == []EvaluatedAtMostOnce /\ [][StoredArrayKept]_vars

DuplicatesShared ==
    /\ pc = "done"
    /\ Cardinality(DOMAIN gen.waveforms) >= 2
    /\ gen.n_references > Cardinality(DOMAIN gen.waveforms)

\* C2: every hash recorded in a per-AWG program entry of the result is a
\* key of the returned waveform table.
ProgramHashesInTable ==
    pc = "done" => HashesOfProgram \subseteq DOMAIN gen.waveforms

ProgramOnTwoAwgs ==
    /\ pc = "done"
    /\ DOMAIN gen.sequences = AWGs
    /\ \A awg \in AWGs :
           \E n \in DOMAIN gen.sequences[awg] :
               /\ gen.sequences[awg][n].value.kind = "element"
               /\ \E cw \in DOMAIN gen.sequences[awg][n].value.codewords :
                      gen.sequences[awg][n].value.codewords[cw] # EmptyDict


\* The keys of the program of an AWG as the segments give them: for every
\* segment in playback order its name, then its elements on the AWG.
KeysInPlaybackOrder(awg) ==
    Flatten([n \in DOMAIN GenSelf.segments |->
                <<GenSelf.segments[n].key>> \o ElementsOn(GenSegment(n), awg)])

\* The hashes of an element of a segment on an AWG, by codeword and channel id.
HashesOfElement(seg, awg, elname) ==
    [cw \in get_element_codewords(seg, elname, awg) |->
        [chid \in {ChannelId(ch) : ch \in get_element_channels(seg, elname, awg)} |->
            calculate_hash(seg, elname, cw,
                           CHOOSE ch \in get_element_channels(seg, elname, awg) :
                               ChannelId(ch) = chid)]]

\* The entries of the program of an AWG as the segments give them.
EntriesInPlaybackOrder(awg) ==
    Flatten([n \in DOMAIN GenSelf.segments |->
                <<[kind |-> "None"]>> \o
                [m \in DOMAIN ElementsOn(GenSegment(n), awg) |->
                    [kind |-> "element",
                     codewords |-> HashesOfElement(GenSegment(n), awg,
                                       ElementsOn(GenSegment(n), awg)[m])]]])

\* C19: the program of every AWG holds, segment by segment in playback
\* order, the segment's name followed by one entry for each of its elements
\* on the AWG with that element's hashes, also when element names repeat in
\* another segment or equal a segment name.
ProgramKeepsEveryElement ==
    pc = "done" =>
        \A awg \in DOMAIN gen.sequences :
            /\ [m \in DOMAIN gen.sequences[awg] |-> gen.sequences[awg][m].key]
                   = KeysInPlaybackOrder(awg)
            /\ [m \in DOMAIN gen.sequences[awg] |->
                   IF gen.sequences[awg][m].value.kind = "element"
                   THEN [kind |-> "element",
                         codewords |-> gen.sequences[awg][m].value.codewords]
                   ELSE gen.sequences[awg][m].value]
                   = EntriesInPlaybackOrder(awg)

\* C20: a hash is computed or a waveform evaluated only after every segment
\* was resolved (resolve_segment, then gen_elements_on_awg) once, in
\* playback order; with awgs=None the AWGs compiled for are those any
\* segment has elements on.
ResolvedBeforeHashing ==
    (pc \in {"compile", "done"} \/ gen.n_references > 0
     \/ gen.waveforms # EmptyDict) =>
        /\ Len(gen.calls) = 2 * Len(GenSelf.segments)
        /\ \A n \in DOMAIN GenSelf.segments :
               /\ gen.calls[2 * n - 1] = <<"resolve_segment", n>>
               /\ gen.calls[2 * n] = <<"gen_elements_on_awg", n>>
               /\ GenSegment(n).resolved = 1
        /\ gen.awgs_arg = <<>> =>
               gen.awgs = {awg \in AWGs :
                              \E n \in DOMAIN GenSelf.segments :
                              \E m \in DOMAIN GenSegment(n).pulses :
                                  awg \in GenSegment(n).pulses[m].awgs}

CompiledForAllUsedAwgs ==
    /\ pc = "done"
    /\ gen.awgs_arg = <<>>
    /\ gen.awgs = AWGs
    /\ Len(GenSelf.segments) >= 2
    /\ \A n \in DOMAIN GenSelf.segments : GenSegment(n).pulses # <<>>


\* The segment an entry of the program of an AWG is listed under: the one
\* whose name is the last segment marker at or before position m.
OwningSegment(awg, m) ==
    LET prog == gen.sequences[awg]
        p == CHOOSE q \in 1..m :
                 /\ prog[q].value.kind = "None"
                 /\ \A r \in (q + 1)..m : prog[r].value.kind # "None"
    IN GenSegment(CHOOSE n \in DOMAIN GenSelf.segments :
                      GenSelf.segments[n].key = prog[p].key)

\* C21: every element entry of a program has metadata acq = True exactly
\* when the element is an acquisition element of the segment it is listed
\* under; n_acq_elements() is the sum of the per-segment list, whose entries
\* are the segments' numbers of acquisition elements in playback order.
AcqFlagsFollowSegments ==
    pc = "done" =>
        /\ \A awg \in DOMAIN gen.sequences :
           \A m \in DOMAIN gen.sequences[awg] :
               gen.sequences[awg][m].value.kind = "element" =>
                   (gen.sequences[awg][m].value.metadata["acq"]
                       <=> gen.sequences[awg][m].key
                               \in OwningSegment(awg, m).acquisition_elements)
        /\ n_acq_elements_per_segment(seqHeap, segHeap, inputs[1]) =
               [n \in DOMAIN GenSelf.segments |->
                   Cardinality(GenSegment(n).acquisition_elements)]
        /\ n_acq_elements(seqHeap, segHeap, inputs[1]) =
               Cardinality(UNION {{n} \X GenSegment(n).acquisition_elements :
                                     n \in DOMAIN GenSelf.segments})


----------------------------------------------------------------------------
\* Properties of Sequence.repeat and Sequence.repeat_ro.

\* The step stores pattern for the channels chs of sequence s: their
\* previous patterns are replaced, nothing else changes.
PatternsRecorded(s, chs, pattern) ==
    /\ DOMAIN seqHeap'[s].repeat_patterns =
           DOMAIN seqHeap[s].repeat_patterns \cup chs
    /\ \A ch \in chs : seqHeap'[s].repeat_patterns[ch] = pattern
    /\ \A ch \in DOMAIN seqHeap[s].repeat_patterns \ chs :
           seqHeap'[s].repeat_patterns[ch] = seqHeap[s].repeat_patterns[ch]
    /\ seqHeap'[s].segments = seqHeap[s].segments
    /\ \A t \in DOMAIN seqHeap \ {s} : seqHeap'[t] = seqHeap[t]
    /\ DOMAIN seqHeap' = DOMAIN seqHeap
    /\ segHeap' = segHeap

\* C22: repeat records the pattern for exactly the channels the pulse names
\* under pulse_channel_names, replacing a previous pattern of those channels
\* and leaving the other channels unchanged; repeat_ro records
\* (n_acq_elements() at the time of the call, 1) for the I and Q channels.
RepeatRecordsPattern ==
    [][ /\ \A i \in DOMAIN inputs, pulse \in Pulses, pattern \in Patterns,
             names \in ChannelNameArgs :
               RepeatOn(i, pulse, pattern, names) =>
                   PatternsRecorded(inputs[i],
                       {pulse[names[n]] : n \in DOMAIN names}, pattern)
        /\ \A i \in DOMAIN inputs, pulse \in Pulses :
               RepeatRo(i, pulse) =>
                   PatternsRecorded(inputs[i],
                       {pulse.I_channel, pulse.Q_channel},
                       <<SumSeq([n \in DOMAIN seqHeap[inputs[i]].segments |->
                            Cardinality(segHeap[seqHeap[inputs[i]].segments[n].seg]
                                            .acquisition_elements)]), 1>>)
      ]_vars

\* repeat on the I channel alone has replaced that channel's pattern and
\* kept the Q channel's, and a repeat_ro has counted an acquisition element.
PatternReplacedOnOneChannel ==
    /\ pc = "build"
    /\ \E i \in DOMAIN inputs :
           /\ DOMAIN seqHeap[inputs[i]].repeat_patterns = {"ch1", "ch2"}
           /\ seqHeap[inputs[i]].repeat_patterns["ch1"] = <<1, 2>>
           /\ seqHeap[inputs[i]].repeat_patterns["ch2"] = <<1, 1>>
    /\ \E i \in DOMAIN inputs :
           /\ n_acq_elements(seqHeap, segHeap, inputs[i]) = 1
           /\ DOMAIN seqHeap[inputs[i]].repeat_patterns = {"ch1", "ch2"}
           /\ seqHeap[inputs[i]].repeat_patterns["ch2"] = <<1, 1>>


\* Every input carried, when merge was called, the pattern repeat_ro records
\* once all its segments are added.
RepeatRoApplied ==
    \A i \in DOMAIN inputs :
        /\ DOMAIN pre.seqH[inputs[i]].repeat_patterns = {"ch1", "ch2"}
        /\ \A ch \in {"ch1", "ch2"} :
               pre.seqH[inputs[i]].repeat_patterns[ch] =
                   <<n_acq_elements(pre.seqH, pre.segH, inputs[i]), 1>>

\* C28: when every input had repeat_ro applied for the same channels after
\* all its segments were added and merge is called with
\* merge_repeat_patterns=True, every returned Sequence has for those
\* channels the pattern (its own n_acq_elements(), 1).
MergedRoPatternCountsAcquisitions ==
    (Returned /\ MergeDone /\ merge_repeat_patterns /\ RepeatRoApplied) =>
        \A k \in DOMAIN retval : \A ch \in {"ch1", "ch2"} :
            /\ ch \in DOMAIN seqHeap[retval[k]].repeat_patterns
            /\ seqHeap[retval[k]].repeat_patterns[ch] =
                   <<n_acq_elements(seqHeap, segHeap, retval[k]), 1>>

\* Two inputs with one acquisition element each were folded into one
\* Sequence whose pattern counts two.
RoPatternsMerged ==
    /\ Returned /\ MergeDone /\ merge_repeat_patterns /\ RepeatRoApplied
    /\ Len(inputs) = 2
    /\ \A i \in DOMAIN inputs :
           n_acq_elements(pre.seqH, pre.segH, inputs[i]) = 1
    /\ Len(retval) = 1
    /\ seqHeap[retval[1]].repeat_patterns["ch1"] = <<2, 1>>


----------------------------------------------------------------------------
\* Properties of the objects merge returns.

\* No returned Sequence is one of the caller's objects or holds one of the
\* caller's Segment objects.
SharesNothingWithInputs ==
    \A k \in DOMAIN retval :
        /\ retval[k] \notin Range(inputs)
        /\ SegRefsOf(seqHeap, retval[k]) \cap
               UNION {SegRefsOf(pre.seqH, inputs[i]) : i \in DOMAIN inputs} = {}

\* C29 as stated: for input lists of every length >= 1, no returned Sequence
\* is the same object as an input or shares segments with one.
ReturnedNeverAliasInputs ==
    (Returned /\ MergeDone /\ Len(inputs) >= 1) => SharesNothingWithInputs

\* C29 amended: for input lists of length >= 2, no returned Sequence is the same
\* object as an input or shares segments or repeat_patterns with one; a list
\* of length 1 is returned as it is, with the caller's own Sequence.
ReturnedCopiesOfSeveralInputs ==
    (Returned /\ MergeDone) =>
        IF Len(inputs) >= 2 THEN SharesNothingWithInputs
        ELSE retval = inputs

\* Two inputs with a segment each were merged into one returned Sequence.
TwoInputsReturnedAsCopies ==
    /\ Returned /\ MergeDone
    /\ Len(inputs) = 2
    /\ \A i \in DOMAIN inputs : n_segments(pre.seqH, inputs[i]) = 1
    /\ Len(retval) = 1
    /\ n_segments(seqHeap, retval[1]) = 2


----------------------------------------------------------------------------
\* Properties of the pulse shapes.

\* C23: __call__ returns the same pulse object, gives every constructor
\* keyword that is passed its new value (alpha and phi_skew of the DRAG pulse
\* included) and leaves the keywords not passed unchanged; the length of an
\* SSB_DRAG_pulse is sigma * nr_sigma after every construction and recall.
RecallOverridesEveryKeyword ==
    [][ /\ \A family \in Families : \A kw \in KwArgs(family) :
               Recall(family, kw) =>
                   /\ pulseObj'.ret = "self"
                   /\ \A k \in DOMAIN kw : pulseObj'.attrs[k] = kw[k]
                   /\ \A k \in DOMAIN Defaults(family) \ DOMAIN kw :
                          pulseObj'.attrs[k] = pulseObj.attrs[k]
        /\ pulseObj'.family = "SSB_DRAG_pulse" =>
               pulseObj'.attrs["length"] =
                   pulseObj'.attrs["sigma"] * pulseObj'.attrs["nr_sigma"]
      ]_vars

\* The same restricted to the keywords __call__ reads.
RecallOverridesReadKeywords ==
    [][ /\ \A family \in Families : \A kw \in KwArgs(family) :
               Recall(family, kw) =>
                   /\ pulseObj'.ret = "self"
                   /\ \A k \in DOMAIN kw \cap Recalled(family) :
                          pulseObj'.attrs[k] = kw[k]
                   /\ \A k \in DOMAIN Defaults(family) \
                                   (DOMAIN kw \cap Recalled(family)) :
                          pulseObj'.attrs[k] = pulseObj.attrs[k]
        /\ pulseObj'.family = "SSB_DRAG_pulse" =>
               pulseObj'.attrs["length"] =
                   pulseObj'.attrs["sigma"] * pulseObj'.attrs["nr_sigma"]
      ]_vars


\* chan_wf of an MW_IQmod_pulse has returned for its I or its Q channel.
MWEvaluated ==
    /\ pulseObj.family = "MW_IQmod_pulse"
    /\ pulseObj.call.chan \in {I_channel, Q_channel}

\* The samples of the last call: 0 after tvals[0] + length, and inside the
\* window amplitude*cos (I) or amplitude*sin (Q) of 2*pi*(f*T[n] + phase/360).
BlockPulseOf(T) ==
    LET a == pulseObj.attrs
        tvals == pulseObj.tvals
        wf == pulseObj.call.wf
    IN /\ pulseObj.call.raised = ""
       /\ DOMAIN wf = DOMAIN tvals
       /\ \A n \in DOMAIN tvals :
              IF tvals[n] > tvals[1] + a["length"] THEN wf[n] = 0
              ELSE IF pulseObj.call.chan = I_channel
              THEN wf[n] = a["amplitude"] * Cos4(Angle(a, T[n]))
              ELSE wf[n] = a["amplitude"] * Sin4(Angle(a, T[n]))
       /\ \A n \in DOMAIN tvals :
              (a = Defaults("MW_IQmod_pulse") /\ tvals[n] = 0) =>
                  wf[n] = IF pulseObj.call.chan = I_channel THEN 1 ELSE 0

\* C24 as stated: samples later than tvals[0] + length are 0 and a sample
\* inside the window at time t is amplitude*cos(2*pi*(f*t + phase/360)) on I
\* and amplitude*sin(...) on Q; the default pulse gives 0.1 on I and 0 on Q
\* at t = 0.
BlockPulseOfSampleTime ==
    MWEvaluated => BlockPulseOf(pulseObj.tvals)

\* C24 amended: on an increasing time axis, samples later than tvals[0] + length are
\* 0 and a sample inside the window is amplitude*cos(2*pi*(f*t + phase/360))
\* on I and amplitude*sin(...) on Q, where t is the sample's time when
\* phaselock is True and the time since tvals[0] when phaselock is False; the
\* default pulse gives 0.1 on I and 0 on Q at t = 0.
BlockPulseOfPulseTime ==
    MWEvaluated =>
        BlockPulseOf([n \in DOMAIN pulseObj.tvals |->
                         IF pulseObj.attrs["phaselock"] THEN pulseObj.tvals[n]
                         ELSE pulseObj.tvals[n] - pulseObj.tvals[1]])

\* A pulse of length 2 without phaselock, evaluated on I at ticks 1 and 5:
\* full amplitude at its own start, 0 after its window.
UnlockedPulseEvaluated ==
    /\ MWEvaluated
    /\ ~pulseObj.attrs["phaselock"]
    /\ pulseObj.attrs["length"] = 2
    /\ pulseObj.call.chan = I_channel
    /\ pulseObj.tvals = <<1, 5>>
    /\ pulseObj.call.wf = <<1, 0>>


\* C26: chan_wf of either pulse family for a channel that is neither the I
\* nor the Q channel raises no error and returns len(tvals) samples, all 0.
OtherChannelGivesZeros ==
    (pulseObj.family \in Families /\ pulseObj.call.chan = "ch3") =>
        /\ pulseObj.call.raised = ""
        /\ Len(pulseObj.call.wf) = Len(pulseObj.tvals)
        /\ \A n \in DOMAIN pulseObj.call.wf :
               IF pulseObj.family = "MW_IQmod_pulse"
               THEN pulseObj.call.wf[n] = 0
               ELSE IsZero(pulseObj.call.wf[n])

\* A DRAG pulse with motzoi = 1 was evaluated for the other channel on an
\* axis that reaches beyond its window.
DragEvaluatedOnOtherChannel ==
    /\ pulseObj.family = "SSB_DRAG_pulse"
    /\ pulseObj.attrs["motzoi"] = 1
    /\ pulseObj.call.chan = "ch3"
    /\ pulseObj.tvals = <<0, 5>>
    /\ Len(pulseObj.call.wf) = 2

\* C27: for both families chan_wf on the I or Q channel returns without
\* error len(tvals) samples for every increasing time axis, also when the
\* last samples lie after tvals[0] + length (those samples being 0); the
\* envelope has as many samples as the time axis passed to the modulation.
ChanWfReturnsForEveryAxis ==
    (pulseObj.family \in Families
     /\ pulseObj.call.chan \in {I_channel, Q_channel}) =>
        /\ pulseObj.call.raised = ""
        /\ Len(pulseObj.call.wf) = Len(pulseObj.tvals)
        /\ \A n \in DOMAIN pulseObj.call.wf :
               pulseObj.tvals[n] > pulseObj.tvals[1] + pulseObj.attrs["length"]
                   => IF pulseObj.family = "MW_IQmod_pulse"
                      THEN pulseObj.call.wf[n] = 0
                      ELSE IsZero(pulseObj.call.wf[n])
        /\ pulseObj.family = "SSB_DRAG_pulse" =>
               Len(pulseObj.call.I_env) = Len(pulseObj.call.mod_tvals)

\* The time axis of the last call lies within the pulse window.
AxisWithinWindow ==
    \A n \in DOMAIN pulseObj.tvals :
        pulseObj.tvals[n] <= pulseObj.tvals[1] + pulseObj.attrs["length"]

\* The same for the MW_IQmod_pulse, and for the SSB_DRAG_pulse on axes that
\* stay within the pulse window.
ChanWfReturnsWithinWindow ==
    (pulseObj.family = "MW_IQmod_pulse"
     \/ (pulseObj.family = "SSB_DRAG_pulse" /\ AxisWithinWindow)) =>
        ChanWfReturnsForEveryAxis

\* chan_wf of an SSB_DRAG_pulse with motzoi = 0 was called for I or Q.
DragEvaluated ==
    /\ pulseObj.family = "SSB_DRAG_pulse"
    /\ pulseObj.call.chan \in {I_channel, Q_channel}
    /\ pulseObj.attrs["motzoi"] = 0

\* C25: with motzoi = 0 the Q envelope of the SSB_DRAG_pulse is 0 at every
\* sample after the offset correction, for every time axis and every value
\* of the other parameters, so that with mod_frequency = 0, phase = 0,
\* alpha = 1 and phi_skew = 0 the I channel carries the offset-corrected
\* Gaussian and the Q channel is all zero.
GaussianOnIWithoutMotzoi ==
    DragEvaluated =>
        /\ Len(pulseObj.call.Q_env) = Len(pulseObj.tvals)
        /\ \A n \in DOMAIN pulseObj.call.Q_env : IsZero(pulseObj.call.Q_env[n])
        /\ (/\ pulseObj.attrs["mod_frequency"] = 0
            /\ pulseObj.attrs["phase"] = 0
            /\ pulseObj.attrs["alpha"] = 1
            /\ pulseObj.attrs["phi_skew"] = 0) =>
               /\ pulseObj.call.raised = ""
               /\ Len(pulseObj.call.wf) = Len(pulseObj.tvals)
               /\ \A n \in DOMAIN pulseObj.call.wf :
                      pulseObj.call.wf[n] =
                          IF pulseObj.call.chan = I_channel
                          THEN pulseObj.call.I_env[n]
                          ELSE ZeroSample

\* The same on axes that stay within the pulse window.
GaussianOnIWithinWindow ==
    AxisWithinWindow => GaussianOnIWithoutMotzoi


----------------------------------------------------------------------------
\* Properties of the HeterodyneInstrument.

\* off() or set('status', 'Off') has been called, from outside or by
\* common_init, and is running.
OffRequested ==
    /\ het.stack # <<>>
    /\ het.stack[1][1] = "off" \/ (het.stack[1][1] = "set" /\ het.stack[1][2] = "Off")

\* The call has returned without an exception and the sources of the object
\* are off.
SwitchedOff ==
    /\ het.stack = <<>>
    /\ het.raised = ""
    /\ het.LO = "Off"
    /\ het.RF \in {"Off", "none"}

\* C30: a call of off(), or setting status to 'Off' as common_init does,
\* completes after finitely many steps and leaves LO and RF off.
SwitchingOffTerminates == OffRequested ~> SwitchedOff

\* The same for objects of LO_modulated_Heterodyne, whose off() is
\* self.LO.off(): every off() completes, and so does every setting of a
\* status parameter that __init__ has added.
LOModSwitchingOffTerminates ==
    (/\ OffRequested
     /\ het.cls = "LO_modulated_Heterodyne"
     /\ het.stack[1][1] = "set" => het.param) ~> SwitchedOff

====
